---------------------------- MODULE Spec2Model ----------------------------
(***************************************************************************)
(* Backtesting engine of the trading dashboard                             *)
(* (src/lib/trading-agent-integration.ts, class BacktestingEngine).        *)
(*                                                                         *)
(* JavaScript numbers are modelled as exact fractions <<n, d>> with d > 0  *)
(* in lowest terms, together with the three IEEE-754 special values the    *)
(* engine can produce:  <<1, 0>> = +Infinity,  <<-1, 0>> = -Infinity and   *)
(* <<0, 0>> = NaN.  Rounding of finite results is not modelled; division   *)
(* by zero, Infinity and NaN follow IEEE-754 (the sign of zero is not      *)
(* kept: every zero divisor is +0, as Math.abs makes it at the one place   *)
(* where the engine divides by a possibly-zero distance).  Common factors   *)
(* are cancelled before multiplying, which keeps the intermediate integers *)
(* small.                                                                  *)
(***************************************************************************)
EXTENDS Integers, Sequences, FiniteSets, TLC

----------------------------------------------------------------------------
(* Numbers *)

NaN == <<0, 0>>
PosInf == <<1, 0>>
NegInf == <<-1, 0>>

AbsInt(k) == IF k < 0 THEN -k ELSE k
SgnInt(k) == IF k < 0 THEN -1 ELSE IF k > 0 THEN 1 ELSE 0

RECURSIVE GCD(_, _)
GCD(a, b) == IF b = 0 THEN a ELSE GCD(b, a % b)

\* the fraction n/d, d > 0, in lowest terms
Norm(n, d) == LET g == GCD(AbsInt(n), d) IN <<n \div g, d \div g>>

\* the integer k as a number
N(k) == <<k, 1>>

IsNaN(a) == a = NaN
IsInf(a) == a[2] = 0 /\ a[1] # 0
IsFinite(a) == a[2] > 0
IsZero(a) == a[2] > 0 /\ a[1] = 0

Neg(a) == <<-a[1], a[2]>>

Add(a, b) ==
    IF IsNaN(a) \/ IsNaN(b) THEN NaN
    ELSE IF IsInf(a) THEN (IF IsInf(b) /\ b # a THEN NaN ELSE a)
    ELSE IF IsInf(b) THEN b
    ELSE LET g == GCD(a[2], b[2])
         IN Norm(a[1] * (b[2] \div g) + b[1] * (a[2] \div g), (a[2] \div g) * b[2])

Sub(a, b) == Add(a, Neg(b))

Mul(a, b) ==
    IF IsNaN(a) \/ IsNaN(b) THEN NaN
    ELSE IF IsInf(a) \/ IsInf(b)
         THEN (IF IsZero(a) \/ IsZero(b) THEN NaN
               ELSE <<SgnInt(a[1]) * SgnInt(b[1]), 0>>)
    ELSE LET g == GCD(AbsInt(a[1]), b[2])
             h == GCD(AbsInt(b[1]), a[2])
         IN Norm((a[1] \div g) * (b[1] \div h), (a[2] \div h) * (b[2] \div g))

Div(a, b) ==
    IF IsNaN(a) \/ IsNaN(b) THEN NaN
    ELSE IF IsInf(b) THEN (IF IsInf(a) THEN NaN ELSE N(0))
    ELSE IF IsZero(b) THEN (IF IsZero(a) THEN NaN ELSE <<SgnInt(a[1]), 0>>)
    ELSE IF IsInf(a) THEN <<SgnInt(a[1]) * SgnInt(b[1]), 0>>
    ELSE LET g == GCD(AbsInt(a[1]), AbsInt(b[1]))
             h == GCD(b[2], a[2])
         IN Norm((a[1] \div g) * (b[2] \div h) * SgnInt(b[1]),
                 (a[2] \div h) * (AbsInt(b[1]) \div g))

\* Math.abs
Abs(a) == <<AbsInt(a[1]), a[2]>>

\* the comparison operators of the language: every comparison with NaN is false
Lt(a, b) ==
    /\ ~IsNaN(a) /\ ~IsNaN(b)
    /\ IF a[2] = 0 /\ b[2] = 0 THEN a[1] < b[1]
       ELSE a[1] * b[2] < b[1] * a[2]
Gt(a, b) == Lt(b, a)
\* a === b on numbers
NumEq(a, b) == ~IsNaN(a) /\ ~IsNaN(b) /\ a = b
Le(a, b) == Lt(a, b) \/ NumEq(a, b)
Ge(a, b) == Le(b, a)
\* a !== b on numbers (true as soon as one side is NaN)
NumNeq(a, b) == ~NumEq(a, b)

\* Math.max of two numbers: NaN as soon as one argument is NaN
Max(a, b) == IF IsNaN(a) \/ IsNaN(b) THEN NaN ELSE IF Lt(a, b) THEN b ELSE a

\* truthiness of a number: 0 and NaN are falsy
Truthy(a) == ~IsNaN(a) /\ ~IsZero(a)


----------------------------------------------------------------------------
(* Inputs of runBacktest *)

\* minimum series length of runBacktest; also the first index processed
MinCandles == 50
\* Math.sqrt(252) of the Sharpe ratio, kept as its square
SharpeAnnualization == 252
\* default of the initialCapital parameter
DefaultInitialCapital == 10000

\* largest number of candles a modelled series has beyond the first MinCandles
MaxProcessed == 3

\* timestamps are strictly increasing along a series
TimeOf(k) == k

Candle(c, l, h) == [close |-> N(c), low |-> N(l), high |-> N(h)]

\* the OHLC shapes a processed candle is drawn from (low <= close <= high):
\* two candles of range 1, a flat candle (high = low) and a wide candle
FlatCandle == Candle(6, 6, 6)
WideCandle == Candle(6, 2, 10)
Candles == {Candle(2, 2, 3), Candle(6, 5, 6), FlatCandle, WideCandle}

\* StrategyConfig: the fields runBacktest and the indicator service read
Strategies ==
    {[id |-> "trend", style |-> "TREND",
      riskPerTrade |-> Norm(1, 100), takeProfitRatio |-> N(2)],
     [id |-> "meanrev", style |-> "MEAN_REVERSION",
      riskPerTrade |-> N(1), takeProfitRatio |-> Norm(3, 2)],
     [id |-> "breakout", style |-> "BREAKOUT",
      riskPerTrade |-> Norm(3, 200), takeProfitRatio |-> Norm(5, 2)]}

\* The values the technicalindicators library may return on a window of at
\* least MinCandles candles that ends with `candle'; atr exists for BREAKOUT
\* only.
TrendIndicators ==
    {[ema20 |-> N(3), sma50 |-> N(2), macd |-> [histogram |-> N(1)], adx |-> N(30)],
     [ema20 |-> N(2), sma50 |-> N(3), macd |-> [histogram |-> N(-1)], adx |-> N(30)],
     [ema20 |-> N(3), sma50 |-> N(2), macd |-> [histogram |-> N(1)], adx |-> N(20)]}

\* calculateStochastic: read by no signal rule, one value stands for it
DefaultStochastic == [k |-> N(50), d |-> N(50)]

MeanReversionIndicators(candle) ==
    {[rsi |-> N(20), stochastic |-> DefaultStochastic,
      bollinger |-> [lower |-> candle.close, upper |-> Add(candle.close, N(4))]],
     [rsi |-> N(80), stochastic |-> DefaultStochastic,
      bollinger |-> [lower |-> Sub(candle.close, N(4)), upper |-> candle.close]],
     [rsi |-> N(50), stochastic |-> DefaultStochastic,
      bollinger |-> [lower |-> Sub(candle.close, N(2)), upper |-> Add(candle.close, N(2))]]}

\* the Donchian window ends with the current candle, so its upper bound is at
\* least that candle's high and its lower bound at most that candle's low
\* Math.min of two numbers
Min(a, b) == IF IsNaN(a) \/ IsNaN(b) THEN NaN ELSE IF Lt(b, a) THEN b ELSE a

DonchianBeforeCandle(before, candle) ==
    [upper |-> before.high, lower |-> before.low]

\* calculateDonchianChannels on a window of at least 20 candles that ends
\* with `candle': `before' holds the highest high and the lowest low of the 19
\* candles before it
calculateDonchianChannels(before, candle) ==
    [upper |-> Max(before.high, candle.high), lower |-> Min(before.low, candle.low)]

BreakoutBags(candle, befores, volumeChanges) ==
    {[atr |-> N(1), donchian |-> calculateDonchianChannels(before, candle),
      volumeChange |-> v] : before \in befores, v \in volumeChanges}

\* the bag of a window whose last candle has its highest high and its lowest
\* low, on a volume change above the threshold of the rule
BreakoutIndicators(candle) ==
    BreakoutBags(candle, {[high |-> candle.high, low |-> candle.low]}, {N(30)})

\* lines 24-44: the indicator set of the strategy's style
StyleIndicators(candle, style) ==
    CASE style = "TREND" -> TrendIndicators
      [] style = "MEAN_REVERSION" -> MeanReversionIndicators(candle)
      [] style = "BREAKOUT" -> BreakoutIndicators(candle)

\* lines 19-22: the indicators common to all styles.  priceChange and
\* volatility are computed from closes the model does not keep and are read by
\* no signal rule: one value stands for each.
CommonIndicators(candle) ==
    {[price |-> candle.close, priceChange |-> N(0), volatility |-> N(1)]}

ShortWindowOffByOne(length) == length <= MinCandles

\* line 7
ShortWindow(length) == length < MinCandles

\* IndicatorService.calculateIndicators(data, strategy), data given by its
\* length and its last candle: the set of indicator bags it may return
calculateIndicators(length, last, strat) ==
    IF ShortWindow(length)
    THEN {[price |-> IF length > 0 THEN last.close ELSE N(0)]}
    ELSE UNION {{common @@ bag : bag \in StyleIndicators(last, strat.style)} :
                   common \in CommonIndicators(last)}

----------------------------------------------------------------------------
(* Signal rule engine *)

Has(obj, field) == field \in DOMAIN obj

generateTrendSignalAdxAtLeast(candle, indicators) ==
    IF /\ Gt(indicators.ema20, indicators.sma50)
       /\ Gt(indicators.macd.histogram, N(0))
       /\ Ge(indicators.adx, N(25))
    THEN "LONG"
    ELSE IF /\ Lt(indicators.ema20, indicators.sma50)
            /\ Lt(indicators.macd.histogram, N(0))
            /\ Ge(indicators.adx, N(25))
         THEN "SHORT"
         ELSE "NEUTRAL"

\* lines 291-306
generateTrendSignal(candle, indicators) ==
    IF /\ Has(indicators, "ema20") /\ Truthy(indicators.ema20)
       /\ Has(indicators, "sma50") /\ Truthy(indicators.sma50)
       /\ Has(indicators, "macd")
    THEN IF /\ Gt(indicators.ema20, indicators.sma50)
            /\ Gt(indicators.macd.histogram, N(0))
            /\ Has(indicators, "adx") /\ Gt(indicators.adx, N(25))
         THEN "LONG"
         ELSE IF /\ Lt(indicators.ema20, indicators.sma50)
                 /\ Lt(indicators.macd.histogram, N(0))
                 /\ Has(indicators, "adx") /\ Gt(indicators.adx, N(25))
              THEN "SHORT"
              ELSE "NEUTRAL"
    ELSE "NEUTRAL"

generateMeanReversionSignal(candle, indicators) ==
    IF /\ Has(indicators, "rsi") /\ Truthy(indicators.rsi)
       /\ Has(indicators, "bollinger")
    THEN IF /\ Lt(indicators.rsi, N(30))
            /\ Lt(candle.close, Mul(indicators.bollinger.lower, Norm(101, 100)))
         THEN "LONG"
         ELSE IF /\ Gt(indicators.rsi, N(70))
                 /\ Gt(candle.close, Mul(indicators.bollinger.upper, Norm(99, 100)))
              THEN "SHORT"
              ELSE "NEUTRAL"
    ELSE "NEUTRAL"

generateBreakoutSignalAnyVolume(candle, indicators) ==
    IF Gt(candle.close, indicators.donchian.upper) THEN "LONG"
    ELSE IF Lt(candle.close, indicators.donchian.lower) THEN "SHORT"
    ELSE "NEUTRAL"

\* lines 325-340
generateBreakoutSignal(candle, indicators) ==
    IF /\ Has(indicators, "donchian")
       /\ Has(indicators, "volumeChange") /\ Truthy(indicators.volumeChange)
    THEN IF /\ Gt(candle.close, indicators.donchian.upper)
            /\ Gt(indicators.volumeChange, N(20))
         THEN "LONG"
         ELSE IF /\ Lt(candle.close, indicators.donchian.lower)
                 /\ Gt(indicators.volumeChange, N(20))
              THEN "SHORT"
              ELSE "NEUTRAL"
    ELSE "NEUTRAL"

generateSignal(candle, indicators, strat) ==
    CASE strat.style = "TREND" -> generateTrendSignal(candle, indicators)
      [] strat.style = "MEAN_REVERSION" -> generateMeanReversionSignal(candle, indicators)
      [] strat.style = "BREAKOUT" -> generateBreakoutSignal(candle, indicators)
      [] OTHER -> "NEUTRAL"

----------------------------------------------------------------------------
(* BacktestingEngine.runBacktest *)

VARIABLES
    marketData,      \* the series: [length, at], at[k] the candle of index k >= MinCandles
    indicatorTable,  \* indicatorTable[k]: calculateIndicators(marketData.slice(0, k + 1), strategy)
    strategy,        \* the StrategyConfig argument
    initialCapital,  \* the initialCapital argument
    pc,              \* "idle", "loop", "metrics", "returned", "thrown"
    i,               \* loop index
    trades, capital, position, entryPrice, entryTime, positionSize,
    stopLoss, takeProfit, equity, drawdowns, maxEquity, maxDrawdown,
    result,          \* the BacktestResult returned by the latest call, or NoResult
    previous,        \* the BacktestResult of the call before, or NoResult
    opened,          \* number of positions opened in the current call
    other            \* the call started on the same series that is not running
                     \* now: its arguments, position and locals, or NoFrame

\* StrategyEngine.analyzeInstrument (src/unnamed/part_011)
VARIABLES
    heap,                 \* the StrategyConfig objects; a reference is an index
    predefinedStrategies, \* the engine's strategy list, as references
    instrumentData,       \* the marketData argument of analyzeInstrument
    marketRegime,         \* the regime detected, or "none"
    strategies,           \* the candidates passed to validateStrategies
    validatedStrategies,  \* the list validateStrategies builds
    vpc,                  \* "idle", "validating", "returned"
    vk,                   \* position of the for-of loop in strategies
    analysis              \* the list returned, or NoResult

\* IndicatorService.calculateIndicators called on its own
VARIABLES
    data,                 \* the data argument: [length, last]
    calculated            \* the bag returned, or NoResult

engineVars == <<marketData, indicatorTable, strategy, initialCapital, pc, i,
                trades, capital, position, entryPrice, entryTime, positionSize,
                stopLoss, takeProfit, equity, drawdowns, maxEquity, maxDrawdown,
                result, previous, opened>>

validatorVars == <<heap, predefinedStrategies, instrumentData, marketRegime,
                   strategies, validatedStrategies, vpc, vk, analysis>>

\* BacktestingEngine.generateSignal called on its own
VARIABLES
    ruleInput,            \* the arguments: [candle, indicators, strategy]
    ruleSignal            \* the signal returned, or "none"

ruleVars == <<ruleInput, ruleSignal>>

\* the live TradingAgent (trading-agent.ts)
VARIABLES
    positions,            \* this.positions
    positionHistory,      \* this.positionHistory
    now                   \* the clock that Date.now() reads

agentVars == <<positions, positionHistory, now>>

serviceVars == <<data, calculated, ruleVars, agentVars>>

vars == <<engineVars, other, validatorVars, serviceVars>>

\* what a step of a runBacktest call cannot reach
outside == <<other, validatorVars, serviceVars>>

locals == <<trades, capital, position, entryPrice, entryTime, positionSize,
            stopLoss, takeProfit, equity, drawdowns, maxEquity, maxDrawdown,
            opened>>

inputs == <<marketData, indicatorTable, strategy, initialCapital>>

NoResult == [none |-> TRUE]
NoFrame == [frame |-> FALSE]
NoData == [length |-> 0]

\* the strategy engine and the indicator service are not in use
ValidatorUnused ==
    /\ heap = <<>>
    /\ predefinedStrategies = <<>>
    /\ instrumentData = NoData
    /\ marketRegime = "none"
    /\ strategies = <<>>
    /\ validatedStrategies = <<>>
    /\ vpc = "unused"
    /\ vk = 0
    /\ analysis = NoResult

RuleUnused ==
    /\ ruleInput = NoResult
    /\ ruleSignal = "none"

AgentUnused ==
    /\ positions = <<>>
    /\ positionHistory = <<>>
    /\ now = 0

ServiceUnused ==
    /\ data = NoData
    /\ calculated = NoResult
    /\ RuleUnused
    /\ AgentUnused

Front(seq) == SubSeq(seq, 1, Len(seq) - 1)

Last(seq) == seq[Len(seq)]

\* the series lengths modelled: two that are too short, and MinCandles plus
\* up to MaxProcessed candles
Lengths == {0, MinCandles - 1} \cup (MinCandles .. MinCandles + MaxProcessed)

Processed(n) == MinCandles .. n - 1

\* a candle together with the indicators computed on the prefix it ends (the
\* engine passes prefixes of more than MinCandles candles only).  To
\* keep the alphabet of a series small, the flat candle is drawn only where it
\* gives a LONG signal and the wide candle only where it gives no signal.
CandlesWithIndicators(strat) ==
    {p \in UNION {{<<c, ind>> : ind \in calculateIndicators(MinCandles + 1, c, strat)} :
                     c \in Candles} :
        /\ p[1] = FlatCandle => generateSignal(p[1], p[2], strat) = "LONG"
        /\ p[1] = WideCandle => generateSignal(p[1], p[2], strat) = "NEUTRAL"}

\* no call has been made on the engine
NotCalled ==
    /\ i = 0
    /\ trades = <<>>
    /\ capital = N(0)
    /\ position = "null"
    /\ entryPrice = N(0)
    /\ entryTime = 0
    /\ positionSize = N(0)
    /\ stopLoss = N(0)
    /\ takeProfit = N(0)
    /\ equity = <<>>
    /\ drawdowns = <<>>
    /\ maxEquity = N(0)
    /\ maxDrawdown = N(0)
    /\ result = NoResult
    /\ previous = NoResult
    /\ opened = 0

Init ==
    /\ strategy \in Strategies
    /\ initialCapital = N(DefaultInitialCapital)
    /\ \E n \in Lengths :
         \E series \in [Processed(n) -> CandlesWithIndicators(strategy)] :
           /\ marketData =
                [length |-> n,
                 at |-> [k \in Processed(n) |->
                           [timestamp |-> TimeOf(k), close |-> series[k][1].close,
                            low |-> series[k][1].low, high |-> series[k][1].high]]]
           /\ indicatorTable = [k \in Processed(n) |-> series[k][2]]
    /\ pc = "idle"
    /\ NotCalled
    /\ other = NoFrame
    /\ ValidatorUnused
    /\ ServiceUnused

\* a call that was started and has neither returned nor thrown
Running(f) == f # NoFrame /\ f.pc \in {"loop", "metrics"}

\* a call may be made on a fresh engine, and once more, with the same
\* arguments, on the engine that has returned, while no other call is running
Callable ==
    \/ pc = "idle"
    \/ pc = "returned" /\ previous = NoResult /\ ~Running(other)

InsufficientDataOffByOne == marketData.length < MinCandles - 1

\* line 73
InsufficientData == marketData.length < MinCandles

\* lines 73-75: the length check throws before anything else happens
RunBacktestThrow ==
    /\ Callable
    /\ InsufficientData
    /\ pc' = "thrown"
    /\ UNCHANGED <<inputs, i, locals, result, previous, outside>>

InitBacktestStateKeepsTrades ==
    /\ trades' = trades
    /\ capital' = initialCapital
    /\ position' = "null"
    /\ entryPrice' = N(0)
    /\ entryTime' = 0
    /\ positionSize' = N(0)
    /\ stopLoss' = N(0)
    /\ takeProfit' = N(0)
    /\ equity' = <<initialCapital>>
    /\ drawdowns' = <<N(0)>>
    /\ maxEquity' = initialCapital
    /\ maxDrawdown' = N(0)
    /\ opened' = 0

\* lines 79-94: the backtest state of this call
InitBacktestState ==
    /\ trades' = <<>>
    /\ capital' = initialCapital
    /\ position' = "null"
    /\ entryPrice' = N(0)
    /\ entryTime' = 0
    /\ positionSize' = N(0)
    /\ stopLoss' = N(0)
    /\ takeProfit' = N(0)
    /\ equity' = <<initialCapital>>
    /\ drawdowns' = <<N(0)>>
    /\ maxEquity' = initialCapital
    /\ maxDrawdown' = N(0)
    /\ opened' = 0

RunBacktestStart ==
    /\ Callable
    /\ ~InsufficientData
    /\ InitBacktestState
    /\ i' = MinCandles
    /\ pc' = "loop"
    /\ previous' = result
    /\ result' = NoResult
    /\ UNCHANGED <<inputs, outside>>

\* line 111: indicators.atr || currentCandle.high - currentCandle.low
AtrValue(indicators, currentCandle) ==
    IF Has(indicators, "atr") /\ Truthy(indicators.atr)
    THEN indicators.atr
    ELSE Sub(currentCandle.high, currentCandle.low)

StopLossPriceOneAtr(signal, currentCandle, atrValue) ==
    IF signal = "LONG"
    THEN Sub(currentCandle.close, atrValue)
    ELSE Add(currentCandle.close, atrValue)

\* lines 115-121
StopLossPrice(signal, currentCandle, atrValue) ==
    IF signal = "LONG"
    THEN Sub(currentCandle.close, Mul(atrValue, N(2)))
    ELSE Add(currentCandle.close, Mul(atrValue, N(2)))

TakeProfitPrice(signal, currentCandle, atrValue, strat) ==
    IF signal = "LONG"
    THEN Add(currentCandle.close, Mul(Mul(atrValue, N(2)), strat.takeProfitRatio))
    ELSE Sub(currentCandle.close, Mul(Mul(atrValue, N(2)), strat.takeProfitRatio))

\* lines 108-132: enter a position on a LONG or SHORT signal
EnterPosition(signal, currentCandle, indicators) ==
    LET riskAmount == Mul(capital, strategy.riskPerTrade)
        atrValue == AtrValue(indicators, currentCandle)
        stopLossPrice == StopLossPrice(signal, currentCandle, atrValue)
        riskPerUnit == Abs(Sub(currentCandle.close, stopLossPrice))
    IN /\ takeProfit' = TakeProfitPrice(signal, currentCandle, atrValue, strategy)
       /\ positionSize' = Div(riskAmount, riskPerUnit)
       /\ position' = IF signal = "LONG" THEN "long" ELSE "short"
       /\ entryPrice' = currentCandle.close
       /\ entryTime' = currentCandle.timestamp
       /\ stopLoss' = stopLossPrice
       /\ opened' = opened + 1
       /\ UNCHANGED <<trades, capital>>

StopLossHitStrict(currentPrice) ==
    \/ position = "long" /\ Lt(currentPrice, stopLoss)
    \/ position = "short" /\ Gt(currentPrice, stopLoss)

\* lines 140, 146-149, 155: the three exit tests, on the candle's close
StopLossHit(currentPrice) ==
    \/ position = "long" /\ Le(currentPrice, stopLoss)
    \/ position = "short" /\ Ge(currentPrice, stopLoss)

TakeProfitHit(currentPrice) ==
    \/ position = "long" /\ Ge(currentPrice, takeProfit)
    \/ position = "short" /\ Le(currentPrice, takeProfit)

SignalReversed(signal) ==
    \/ position = "long" /\ signal = "SHORT"
    \/ position = "short" /\ signal = "LONG"

ExitReasonTakeProfitFirst(currentPrice, signal) ==
    IF TakeProfitHit(currentPrice) THEN "Take Profit"
    ELSE IF StopLossHit(currentPrice) THEN "Stop Loss"
    ELSE IF SignalReversed(signal) THEN "Signal Reversal"
    ELSE ""

ExitReasonReversalFirst(currentPrice, signal) ==
    IF StopLossHit(currentPrice) THEN "Stop Loss"
    ELSE IF SignalReversed(signal) THEN "Signal Reversal"
    ELSE IF TakeProfitHit(currentPrice) THEN "Take Profit"
    ELSE ""

\* lines 136-159: the if / else-if chain that picks the exit reason ("" = none)
ExitReason(currentPrice, signal) ==
    IF StopLossHit(currentPrice) THEN "Stop Loss"
    ELSE IF TakeProfitHit(currentPrice) THEN "Take Profit"
    ELSE IF SignalReversed(signal) THEN "Signal Reversal"
    ELSE ""

ExitPnlAtClose(exitReason, currentPrice) ==
    IF position = "long" THEN Sub(currentPrice, entryPrice) ELSE Sub(entryPrice, currentPrice)

\* lines 142, 151, 157: price difference of the exit, per unit
ExitPnl(exitReason, currentPrice) ==
    LET exitAt == CASE exitReason = "Stop Loss" -> stopLoss
                    [] exitReason = "Take Profit" -> takeProfit
                    [] OTHER -> currentPrice
    IN IF position = "long" THEN Sub(exitAt, entryPrice) ELSE Sub(entryPrice, exitAt)

ExitPriceAlwaysClose(exitReason, currentPrice) == currentPrice

\* lines 171-182
ExitPrice(exitReason, currentPrice) ==
    CASE exitReason = "Stop Loss" -> stopLoss
      [] exitReason = "Take Profit" -> takeProfit
      [] OTHER -> currentPrice

\* lines 167-187 and 214-223: the Trade record
MakeTrade(exitTime, exitPrice, pnlAmount, exitReason) ==
    [entryTime |-> entryTime,
     entryPrice |-> entryPrice,
     exitTime |-> exitTime,
     exitPrice |-> exitPrice,
     type |-> position,
     pnl |-> pnlAmount,
     pnlPercentage |-> Mul(Div(pnlAmount, Mul(entryPrice, positionSize)), N(100)),
     exitReason |-> exitReason]

ResetPositionForgotten ==
    UNCHANGED <<position, entryPrice, entryTime, positionSize, stopLoss, takeProfit>>

\* lines 189-195
ResetPosition ==
    /\ position' = "null"
    /\ entryPrice' = N(0)
    /\ entryTime' = 0
    /\ positionSize' = N(0)
    /\ stopLoss' = N(0)
    /\ takeProfit' = N(0)

\* lines 134-197: in a position, check the exit conditions
CheckExit(signal, currentCandle) ==
    LET currentPrice == currentCandle.close
        exitReason == ExitReason(currentPrice, signal)
        pnlAmount == Mul(ExitPnl(exitReason, currentPrice), positionSize)
    IN IF exitReason # ""
       THEN /\ capital' = Add(capital, pnlAmount)
            /\ trades' = Append(trades,
                   MakeTrade(currentCandle.timestamp,
                             ExitPrice(exitReason, currentPrice), pnlAmount, exitReason))
            /\ ResetPosition
            /\ UNCHANGED opened
       ELSE UNCHANGED <<trades, capital, position, entryPrice, entryTime,
                        positionSize, stopLoss, takeProfit, opened>>

UpdateEquityOnChange ==
    LET newMax == Max(maxEquity, capital')
        currentDrawdown == Mul(Div(Sub(newMax, capital'), newMax), N(100))
    IN IF capital' = capital
       THEN UNCHANGED <<equity, maxEquity, drawdowns, maxDrawdown>>
       ELSE /\ equity' = Append(equity, capital')
            /\ maxEquity' = newMax
            /\ drawdowns' = Append(drawdowns, currentDrawdown)
            /\ maxDrawdown' = Max(maxDrawdown, currentDrawdown)

\* lines 199-204: equity curve and drawdown, from the capital after the candle
UpdateEquity ==
    LET newMax == Max(maxEquity, capital')
        currentDrawdown == Mul(Div(Sub(newMax, capital'), newMax), N(100))
    IN /\ equity' = Append(equity, capital')
       /\ maxEquity' = newMax
       /\ drawdowns' = Append(drawdowns, currentDrawdown)
       /\ maxDrawdown' = Max(maxDrawdown, currentDrawdown)

\* lines 94-205: one iteration of the loop
ProcessCandle ==
    /\ pc = "loop"
    /\ i < marketData.length
    /\ LET currentCandle == marketData.at[i]
           indicators == indicatorTable[i]
           signal == generateSignal(currentCandle, indicators, strategy)
       IN IF position = "null"
          THEN IF signal = "LONG" \/ signal = "SHORT"
               THEN EnterPosition(signal, currentCandle, indicators)
               ELSE UNCHANGED <<trades, capital, position, entryPrice, entryTime,
                                positionSize, stopLoss, takeProfit, opened>>
          ELSE CheckExit(signal, currentCandle)
    /\ UpdateEquity
    /\ i' = i + 1
    /\ UNCHANGED <<inputs, pc, result, previous, outside>>

CloseOpenPositionSkipped ==
    /\ pc = "loop"
    /\ ~(i < marketData.length)
    /\ pc' = "metrics"
    /\ UNCHANGED <<inputs, i, locals, result, previous, outside>>

\* lines 94 and 207-224: the loop condition fails; close any open position at
\* the end of the backtest
CloseOpenPosition ==
    /\ pc = "loop"
    /\ ~(i < marketData.length)
    /\ IF position # "null"
       THEN LET lastCandle == marketData.at[marketData.length - 1]
                pnl == IF position = "long"
                       THEN Sub(lastCandle.close, entryPrice)
                       ELSE Sub(entryPrice, lastCandle.close)
                pnlAmount == Mul(pnl, positionSize)
            IN /\ capital' = Add(capital, pnlAmount)
               /\ trades' = Append(trades,
                      MakeTrade(lastCandle.timestamp, lastCandle.close,
                                pnlAmount, "End of Test"))
       ELSE UNCHANGED <<trades, capital>>
    /\ pc' = "metrics"
    /\ UNCHANGED <<inputs, i, position, entryPrice, entryTime, positionSize,
                   stopLoss, takeProfit, equity, drawdowns, maxEquity,
                   maxDrawdown, opened, result, previous, outside>>

\* Array.prototype.reduce((sum, x) => sum + x, 0)
RECURSIVE SumSeq(_)
SumSeq(seq) ==
    IF seq = <<>> THEN N(0)
    ELSE Add(SumSeq(SubSeq(seq, 1, Len(seq) - 1)), Last(seq))

PnlOf(ts) == [k \in 1 .. Len(ts) |-> ts[k].pnl]

IsWinningOrEven(t) == Ge(t.pnl, N(0))

\* line 229
IsWinning(t) == Gt(t.pnl, N(0))
IsLosing(t) == Le(t.pnl, N(0))

\* lines 241-244: per-step returns of the equity curve
Returns(eq) ==
    [k \in 1 .. Len(eq) - 1 |-> Div(Sub(eq[k + 1], eq[k]), eq[k])]

AverageReturn(returns) == Div(SumSeq(returns), N(Len(returns)))

\* line 247: the mean squared deviation whose square root is stdDeviation
Variance(returns) ==
    LET averageReturn == AverageReturn(returns)
        sq == [k \in 1 .. Len(returns) |->
                 Mul(Sub(returns[k], averageReturn), Sub(returns[k], averageReturn))]
    IN Div(SumSeq(sq), N(Len(returns)))

\* line 249.  The ratio x = averageReturn / sqrt(variance) * sqrt(252) is not a
\* fraction, so it is carried as x * |x|, which is 0, NaN, positive or
\* negative exactly when x is.  stdDeviation !== 0 holds exactly when the
\* variance is NaN or not zero.
SharpeRatio(eq) ==
    LET returns == Returns(eq)
        averageReturn == AverageReturn(returns)
        variance == Variance(returns)
    IN IF NumNeq(variance, N(0))
       THEN Div(Mul(Mul(averageReturn, Abs(averageReturn)), N(SharpeAnnualization)),
                variance)
       ELSE N(0)

\* line 233
WinRate(ts) == Div(N(Len(SelectSeq(ts, IsWinning))), N(Len(ts)))

\* lines 234-237
AverageWin(ts) ==
    LET winningTrades == SelectSeq(ts, IsWinning)
    IN IF Len(winningTrades) > 0
       THEN Div(SumSeq(PnlOf(winningTrades)), N(Len(winningTrades)))
       ELSE N(0)

AverageLoss(ts) ==
    LET losingTrades == SelectSeq(ts, IsLosing)
    IN IF Len(losingTrades) > 0
       THEN Div(SumSeq(PnlOf(losingTrades)), N(Len(losingTrades)))
       ELSE N(0)

\* line 238
ProfitFactor(ts) ==
    IF NumNeq(AverageLoss(ts), N(0))
    THEN Abs(Div(AverageWin(ts), AverageLoss(ts)))
    ELSE N(0)

\* lines 251-271: the BacktestResult (symbol and timeframe, copied from the
\* first candle, are left out)
BacktestResult ==
    LET totalPnL == SumSeq(PnlOf(trades))
    IN [initialCapital |-> initialCapital,
        finalCapital |-> capital,
        totalPnL |-> totalPnL,
        totalPnLPercentage |-> Mul(Div(totalPnL, initialCapital), N(100)),
        trades |-> trades,
        winRate |-> WinRate(trades),
        averageWin |-> AverageWin(trades),
        averageLoss |-> AverageLoss(trades),
        profitFactor |-> ProfitFactor(trades),
        maxDrawdown |-> maxDrawdown,
        sharpeRatio |-> SharpeRatio(equity),
        equity |-> equity,
        drawdowns |-> drawdowns,
        strategyId |-> strategy.id,
        startTime |-> TimeOf(0),
        endTime |-> TimeOf(marketData.length - 1)]

\* lines 228-272: compute the metrics and return
Return ==
    /\ pc = "metrics"
    /\ result' = BacktestResult
    /\ pc' = "returned"
    /\ UNCHANGED <<inputs, i, locals, previous, outside>>

\* the arguments, the position and the locals of the running call
Frame ==
    [indicatorTable |-> indicatorTable, strategy |-> strategy, pc |-> pc, i |-> i,
     trades |-> trades, capital |-> capital, position |-> position,
     entryPrice |-> entryPrice, entryTime |-> entryTime,
     positionSize |-> positionSize, stopLoss |-> stopLoss,
     takeProfit |-> takeProfit, equity |-> equity, drawdowns |-> drawdowns,
     maxEquity |-> maxEquity, maxDrawdown |-> maxDrawdown, opened |-> opened,
     result |-> result, previous |-> previous]

ResumeSharingTrades(f) ==
    /\ indicatorTable' = f.indicatorTable /\ strategy' = f.strategy
    /\ pc' = f.pc /\ i' = f.i
    /\ trades' = trades /\ capital' = f.capital /\ position' = f.position
    /\ entryPrice' = f.entryPrice /\ entryTime' = f.entryTime
    /\ positionSize' = f.positionSize /\ stopLoss' = f.stopLoss
    /\ takeProfit' = f.takeProfit /\ equity' = f.equity
    /\ drawdowns' = f.drawdowns /\ maxEquity' = f.maxEquity
    /\ maxDrawdown' = f.maxDrawdown /\ opened' = f.opened
    /\ result' = f.result /\ previous' = f.previous

\* lines 68-91: every call has its own parameters and its own locals (const
\* and let declarations of the function body); the engine has no field a
\* call writes
Resume(f) ==
    /\ indicatorTable' = f.indicatorTable /\ strategy' = f.strategy
    /\ pc' = f.pc /\ i' = f.i
    /\ trades' = f.trades /\ capital' = f.capital /\ position' = f.position
    /\ entryPrice' = f.entryPrice /\ entryTime' = f.entryTime
    /\ positionSize' = f.positionSize /\ stopLoss' = f.stopLoss
    /\ takeProfit' = f.takeProfit /\ equity' = f.equity
    /\ drawdowns' = f.drawdowns /\ maxEquity' = f.maxEquity
    /\ maxDrawdown' = f.maxDrawdown /\ opened' = f.opened
    /\ result' = f.result /\ previous' = f.previous

\* Control passes from the running call to the other call started on the
\* same engine and series (compareStrategies starts the next runBacktest
\* without awaiting the promise of the one before).  runBacktest awaits
\* nothing, so the event loop itself never suspends a call; the model lets
\* control pass after any step, which covers every schedule.  A repeated call
\* is the reference run: it runs alone, from its start to its return.
Switch ==
    /\ other # NoFrame
    /\ previous = NoResult \/ pc = "returned"
    /\ \/ other.pc \in {"idle", "loop", "metrics"}
       \/ other.pc = "returned" /\ other.previous = NoResult /\ pc = "returned"
    /\ other' = Frame
    /\ Resume(other)
    /\ UNCHANGED <<marketData, initialCapital, validatorVars, serviceVars>>

Next ==
    \/ RunBacktestThrow
    \/ RunBacktestStart
    \/ ProcessCandle
    \/ CloseOpenPosition
    \/ Return

Spec == Init /\ [][Next]_vars

----------------------------------------------------------------------------
(* StrategyEngine: regime detection and strategy validation *)

\* detectMarketRegime answers RANGING below this many candles
MinRegimeCandles == 50
\* validateStrategies validates on at least this many candles
MinValidation == 100
\* first index of the scoring loop of backtest
FirstScored == 50

\* largest number of iterations of the scoring loop in a modelled series
MaxScored == 2

Regimes == {"TRENDING", "RANGING", "VOLATILE"}
Styles == {"TREND", "MEAN_REVERSION", "BREAKOUT"}

\* the default strategies (suitableRegimes, an array read with includes only,
\* is kept as a set; name and the indicator name lists are left out)
initializeStrategies ==
    <<[id |-> "trend-following", style |-> "TREND",
       riskPerTrade |-> Norm(1, 100), takeProfitRatio |-> N(2),
       stopLossType |-> "atr", suitableRegimes |-> {"TRENDING"}],
      [id |-> "mean-reversion", style |-> "MEAN_REVERSION",
       riskPerTrade |-> Norm(1, 100), takeProfitRatio |-> Norm(3, 2),
       stopLossType |-> "percentage", suitableRegimes |-> {"RANGING"}],
      [id |-> "breakout", style |-> "BREAKOUT",
       riskPerTrade |-> Norm(3, 200), takeProfitRatio |-> Norm(5, 2),
       stopLossType |-> "atr", suitableRegimes |-> {"VOLATILE", "TRENDING"}],
      [id |-> "volatility-trend", style |-> "TREND",
       riskPerTrade |-> Norm(1, 50), takeProfitRatio |-> Norm(9, 5),
       stopLossType |-> "atr", suitableRegimes |-> {"VOLATILE"}]>>

\* the list after updateStrategy(id, updates): { ...old, ...updates }
updateStrategy(list, id, updates) ==
    [k \in DOMAIN list |-> IF list[k].id = id THEN updates @@ list[k] ELSE list[k]]

\* the strategy lists an engine holds: the defaults, and the defaults after
\* the mean-reversion strategy was made suitable for every regime
StrategyLists ==
    {initializeStrategies,
     updateStrategy(initializeStrategies, "mean-reversion",
                    [suitableRegimes |-> Regimes])}

\* Math.floor(marketData.length * 0.7); the lengths modelled are lengths on
\* which the floating-point product rounds to the same integer
SplitIndex(n) == (n * 7) \div 10

\* testingData.length
TestingLength(n) == n - SplitIndex(n)

\* number of iterations of the scoring loop: i from FirstScored while
\* i < testingData.length - 1
Scored(n) ==
    IF TestingLength(n) - 1 > FirstScored
    THEN TestingLength(n) - 1 - FirstScored ELSE 0

ScoredIdx(n) == FirstScored .. FirstScored + Scored(n) - 1

\* the testing candles the scoring loop reads: the last candle of the first
\* slice, and every candle from FirstScored on
TestIdx(n) == IF Scored(n) > 0 THEN FirstScored - 1 .. TestingLength(n) - 1 ELSE {}

\* the shortest series, of a length no multiple of 10, with t testing candles
LengthWithTest(t) ==
    CHOOSE n \in 1 .. 4 * t :
        /\ n % 10 # 0 /\ TestingLength(n) = t
        /\ \A k \in 1 .. n - 1 : k % 10 = 0 \/ TestingLength(k) # t

ValidatorLengths ==
    {0, MinRegimeCandles - 1, MinRegimeCandles, MinValidation - 1, MinValidation}
        \cup {LengthWithTest(FirstScored + 1 + m) : m \in 0 .. MaxScored}

\* the two candles of range 1
PlainCandles == {Candle(2, 2, 3), Candle(6, 5, 6)}

\* calculateVolatility, calculateTrendStrength and calculateVolumeTrend of the
\* series (lines 142-191): the measures detectMarketRegime compares
RegimeMeasures ==
    {[trendStrength |-> N(100), volatility |-> N(1), volumeTrend |-> N(0)],
     [trendStrength |-> N(0), volatility |-> N(4), volumeTrend |-> N(0)],
     [trendStrength |-> N(0), volatility |-> N(3), volumeTrend |-> N(30)],
     [trendStrength |-> N(0), volatility |-> N(1), volumeTrend |-> N(0)]}

\* lines 38-61
detectMarketRegime(d) ==
    IF d.length < MinRegimeCandles THEN "RANGING"
    ELSE IF /\ Gt(d.measures.trendStrength, N(25))
            /\ Lt(d.measures.volatility, Norm(5, 2))
         THEN "TRENDING"
         ELSE IF \/ Gt(d.measures.volatility, Norm(7, 2))
                 \/ /\ Gt(d.measures.volumeTrend, N(20))
                    /\ Gt(d.measures.volatility, N(2))
              THEN "VOLATILE"
              ELSE "RANGING"

\* calculateIndicators(testingData.slice(0, i), strategy) for the three styles,
\* on a slice of i candles that ends with `last': the library outcomes are
\* drawn together, one row for each bag of a style
IndicatorRows(length, last) ==
    LET bags(style) == calculateIndicators(length, last, [style |-> style])
        long(style) == {b \in bags(style) :
                           generateSignal(last, b, [style |-> style]) = "LONG"}
        short(style) == {b \in bags(style) :
                            generateSignal(last, b, [style |-> style]) = "SHORT"}
        neutral(style) == {b \in bags(style) :
                              generateSignal(last, b, [style |-> style]) = "NEUTRAL"}
        rows(ts, ms) == {[TREND |-> t, MEAN_REVERSION |-> m, BREAKOUT |-> b] :
                            t \in ts, m \in ms, b \in bags("BREAKOUT")}
    IN rows(long("TREND"), long("MEAN_REVERSION"))
          \cup rows(short("TREND"), neutral("MEAN_REVERSION"))
          \cup rows(neutral("TREND"), short("MEAN_REVERSION"))

\* the indicator tables of a testing series: one row for each scored index
RECURSIVE IndicatorTables(_, _)
IndicatorTables(at, idx) ==
    IF idx = {} THEN {<<>>}
    ELSE LET top == CHOOSE m \in idx : \A k \in idx : k <= m
         IN {t @@ (top :> row) : t \in IndicatorTables(at, idx \ {top}),
                                 row \in IndicatorRows(top, at[top - 1])}

\* lines 271-289: undefined compares false with every number
generateSignalFromIndicators(strat, indicators) ==
    CASE strat.style = "TREND" ->
           IF Has(indicators, "ema20") /\ Has(indicators, "sma50")
           THEN IF Gt(indicators.ema20, indicators.sma50) THEN "LONG"
                ELSE IF Lt(indicators.ema20, indicators.sma50) THEN "SHORT"
                ELSE "NEUTRAL"
           ELSE "NEUTRAL"
      [] strat.style = "MEAN_REVERSION" ->
           IF Has(indicators, "rsi")
           THEN IF Lt(indicators.rsi, N(30)) THEN "LONG"
                ELSE IF Gt(indicators.rsi, N(70)) THEN "SHORT"
                ELSE "NEUTRAL"
           ELSE "NEUTRAL"
      [] strat.style = "BREAKOUT" ->
           IF Has(indicators, "price") /\ Has(indicators, "donchian")
           THEN IF Gt(indicators.price, indicators.donchian.upper) THEN "LONG"
                ELSE IF Lt(indicators.price, indicators.donchian.lower) THEN "SHORT"
                ELSE "NEUTRAL"
           ELSE "NEUTRAL"
      [] OTHER -> "NEUTRAL"

\* lines 231-255: wins, losses and totals after the iterations up to `upTo'
RECURSIVE Score(_, _, _)
Score(strat, d, upTo) ==
    IF upTo < FirstScored
    THEN [wins |-> 0, losses |-> 0, totalProfit |-> N(0), totalLoss |-> N(0)]
    ELSE LET s == Score(strat, d, upTo - 1)
             signal == generateSignalFromIndicators(strat, d.indicators[upTo][strat.style])
             cur == d.at[upTo].close
             next == d.at[upTo + 1].close
         IN IF signal = "LONG" /\ Gt(next, cur)
            THEN [s EXCEPT !.wins = @ + 1,
                           !.totalProfit = Add(@, Div(Sub(next, cur), cur))]
            ELSE IF signal = "SHORT" /\ Lt(next, cur)
            THEN [s EXCEPT !.wins = @ + 1,
                           !.totalProfit = Add(@, Div(Sub(cur, next), cur))]
            ELSE IF signal # "NEUTRAL"
            THEN [s EXCEPT !.losses = @ + 1,
                           !.totalLoss = Add(@, Abs(Div(Sub(next, cur), cur)))]
            ELSE s

backtestWithoutFallback(strat, d) ==
    LET s == Score(strat, d, TestingLength(d.length) - 2)
        winRate == Div(N(s.wins), N(s.wins + s.losses))
        avgWin == IF s.wins > 0 THEN Div(s.totalProfit, N(s.wins)) ELSE N(0)
        avgLoss == IF s.losses > 0 THEN Div(s.totalLoss, N(s.losses)) ELSE N(0)
    IN [winRate |-> winRate,
        expectancy |-> Sub(Mul(winRate, avgWin), Mul(Sub(N(1), winRate), avgLoss)),
        trades |-> s.wins + s.losses,
        avgWin |-> avgWin,
        avgLoss |-> avgLoss]

\* lines 226-269: the validator's own one-step-ahead backtest
backtest(strat, d) ==
    LET s == Score(strat, d, TestingLength(d.length) - 2)
        ratio == Div(N(s.wins), N(s.wins + s.losses))
        winRate == IF Truthy(ratio) THEN ratio ELSE N(0)
        avgWin == IF s.wins > 0 THEN Div(s.totalProfit, N(s.wins)) ELSE N(0)
        avgLoss == IF s.losses > 0 THEN Div(s.totalLoss, N(s.losses)) ELSE N(0)
    IN [winRate |-> winRate,
        expectancy |-> Sub(Mul(winRate, avgWin), Mul(Sub(N(1), winRate), avgLoss)),
        trades |-> s.wins + s.losses,
        avgWin |-> avgWin,
        avgLoss |-> avgLoss]

ValidatorInit ==
    /\ \E list \in StrategyLists :
         /\ heap = list
         /\ predefinedStrategies = [k \in DOMAIN list |-> k]
    /\ \E n \in ValidatorLengths :
         \E at \in [TestIdx(n) -> PlainCandles] :
           \E table \in IndicatorTables(at, ScoredIdx(n)) :
             \E m \in (IF n < MinRegimeCandles
                       THEN {CHOOSE x \in RegimeMeasures : TRUE}
                       ELSE RegimeMeasures) :
               instrumentData =
                 [length |-> n, measures |-> m, at |-> at, indicators |-> table]
    /\ marketRegime = "none"
    /\ strategies = <<>>
    /\ validatedStrategies = <<>>
    /\ vpc = "idle"
    /\ vk = 0
    /\ analysis = NoResult
    /\ marketData = [length |-> 0, at |-> <<>>]
    /\ indicatorTable = <<>>
    /\ strategy = [id |-> "none"]
    /\ initialCapital = N(DefaultInitialCapital)
    /\ pc = "unused"
    /\ NotCalled
    /\ other = NoFrame
    /\ ServiceUnused

getStrategiesUnfiltered(regime) == predefinedStrategies

\* lines 193-195
getStrategiesForRegime(regime) ==
    SelectSeq(predefinedStrategies, LAMBDA ref : regime \in heap[ref].suitableRegimes)

NotEnoughAtMinCandles(n) == n < MinCandles

\* line 203
NotEnoughForValidation(n) == n < MinValidation

\* lines 27-33 and 203-207: detect the regime, select the strategies, and
\* enter validateStrategies, which hands the candidates back on a short series
AnalyzeInstrument ==
    /\ vpc = "idle"
    /\ marketRegime' = detectMarketRegime(instrumentData)
    /\ strategies' = getStrategiesForRegime(marketRegime')
    /\ IF NotEnoughForValidation(instrumentData.length)
       THEN /\ analysis' = strategies'
            /\ vpc' = "returned"
            /\ UNCHANGED <<validatedStrategies, vk>>
       ELSE /\ validatedStrategies' = <<>>
            /\ vk' = 1
            /\ vpc' = "validating"
            /\ UNCHANGED analysis
    /\ UNCHANGED <<heap, predefinedStrategies, instrumentData,
                   engineVars, other, serviceVars>>

AttachResultInPlace(ref, backTestResult) ==
    /\ heap' = [heap EXCEPT ![ref] = [backTestResult |-> backTestResult] @@ heap[ref]]
    /\ validatedStrategies' = Append(validatedStrategies, ref)

\* lines 215-218: push { ...strategy, backTestResult }, a new object
AttachResult(ref, backTestResult) ==
    /\ heap' = Append(heap, [backTestResult |-> backTestResult] @@ heap[ref])
    /\ validatedStrategies' = Append(validatedStrategies, Len(heap) + 1)

NonNegativeExpectancy(backTestResult) == Ge(backTestResult.expectancy, N(0))

\* line 214
PositiveExpectancy(backTestResult) == Gt(backTestResult.expectancy, N(0))

\* lines 209-220: one iteration of the loop over the candidates
ValidateStrategy ==
    /\ vpc = "validating"
    /\ vk <= Len(strategies)
    /\ LET ref == strategies[vk]
           backTestResult == backtest(heap[ref], instrumentData)
       IN IF PositiveExpectancy(backTestResult)
          THEN AttachResult(ref, backTestResult)
          ELSE UNCHANGED <<heap, validatedStrategies>>
    /\ vk' = vk + 1
    /\ UNCHANGED <<predefinedStrategies, instrumentData, marketRegime, strategies,
                   vpc, analysis, engineVars, other, serviceVars>>

\* b.backTestResult?.expectancy || 0
SortKey(ref) ==
    IF Has(heap[ref], "backTestResult") /\ Truthy(heap[ref].backTestResult.expectancy)
    THEN heap[ref].backTestResult.expectancy
    ELSE N(0)

CompareAscending(a, b) == Sub(SortKey(a), SortKey(b))

\* line 223: the comparator
Compare(a, b) == Sub(SortKey(b), SortKey(a))

\* Array.prototype.sort with a comparator: a stable sort, in which a is put
\* after b only when the comparator's value for (a, b) is greater than 0
RECURSIVE Insert(_, _)
Insert(sorted, x) ==
    IF sorted = <<>> THEN <<x>>
    ELSE IF Gt(Compare(Last(sorted), x), N(0))
         THEN Append(Insert(Front(sorted), x), Last(sorted))
         ELSE Append(sorted, x)

RECURSIVE Sort(_)
Sort(list) ==
    IF list = <<>> THEN <<>> ELSE Insert(Sort(Front(list)), Last(list))

\* line 223: sort the validated list in place and return it
SortAndReturn ==
    /\ vpc = "validating"
    /\ vk > Len(strategies)
    /\ validatedStrategies' = Sort(validatedStrategies)
    /\ analysis' = validatedStrategies'
    /\ vpc' = "returned"
    /\ UNCHANGED <<heap, predefinedStrategies, instrumentData, marketRegime,
                   strategies, vk, engineVars, other, serviceVars>>

ValidatorNext ==
    \/ AnalyzeInstrument
    \/ ValidateStrategy
    \/ SortAndReturn

SpecValidate == ValidatorInit /\ [][ValidatorNext]_vars

----------------------------------------------------------------------------
(* Two runBacktest calls on one series *)

\* largest number of candles beyond the first MinCandles of a series on which
\* two calls are started
MaxConcurrent == 2

ConcurrentLengths == {MinCandles - 1} \cup (MinCandles .. MinCandles + MaxConcurrent)

\* a candle of a shared series, with the indicators of every style on the
\* prefix it ends
ConcurrentSteps ==
    UNION {{<<c, row>> : row \in IndicatorRows(MinCandles + 1, c)} :
              c \in PlainCandles}

\* the pairs of different strategies, each pair in one order
StrategyPairs ==
    {LET first == CHOOSE x \in two : TRUE
     IN <<first, CHOOSE x \in two \ {first} : TRUE>> :
        two \in {S \in SUBSET Strategies : Cardinality(S) = 2}}

\* two calls on one engine and one series, with two different strategies
ConcurrentInit ==
    /\ initialCapital = N(DefaultInitialCapital)
    /\ pc = "idle"
    /\ NotCalled
    /\ \E pair \in StrategyPairs :
       \E n \in ConcurrentLengths :
         \E series \in [Processed(n) -> ConcurrentSteps] :
           /\ marketData =
                [length |-> n,
                 at |-> [k \in Processed(n) |->
                           [timestamp |-> TimeOf(k), close |-> series[k][1].close,
                            low |-> series[k][1].low, high |-> series[k][1].high]]]
           /\ strategy = pair[1]
           /\ indicatorTable = [k \in Processed(n) |-> series[k][2][pair[1].style]]
           /\ other = [Frame EXCEPT
                         !.strategy = pair[2],
                         !.indicatorTable =
                             [k \in Processed(n) |-> series[k][2][pair[2].style]]]
    /\ ValidatorUnused
    /\ ServiceUnused

ConcurrentNext == Next \/ Switch

SpecConcurrent == ConcurrentInit /\ [][ConcurrentNext]_vars

----------------------------------------------------------------------------
(* Both engines *)

\* an engine on which runBacktest is called, or a strategy engine on which
\* analyzeInstrument is called
FrameInit == Init \/ ValidatorInit

FrameNext == Next \/ ValidatorNext

SpecFrame == FrameInit /\ [][FrameNext]_vars

-----------------------------------------------------------------------------
\* IndicatorService.calculateIndicators called on its own

\* window lengths around the minimum, the empty window included
ServiceLengths == {0, 1, MinCandles - 1, MinCandles, MinCandles + 1}

\* an empty window has no last candle
NoCandle == [none |-> TRUE]

ServiceInit ==
    /\ \E length \in ServiceLengths :
         \E last \in (IF length = 0 THEN {NoCandle} ELSE Candles) :
            data = [length |-> length, last |-> last]
    /\ calculated = NoResult
    /\ RuleUnused
    /\ AgentUnused
    /\ strategy \in Strategies
    /\ marketData = [length |-> 0, at |-> <<>>]
    /\ indicatorTable = <<>>
    /\ initialCapital = N(DefaultInitialCapital)
    /\ pc = "unused"
    /\ NotCalled
    /\ other = NoFrame
    /\ ValidatorUnused

\* indicators.ts lines 6-47
CalculateIndicators ==
    /\ data # NoData
    /\ calculated = NoResult
    /\ calculated' \in calculateIndicators(data.length, data.last, strategy)
    /\ UNCHANGED <<data, ruleVars, agentVars, engineVars, other, validatorVars>>

ServiceNext == CalculateIndicators

SpecService == ServiceInit /\ [][ServiceNext]_vars

-----------------------------------------------------------------------------
\* BacktestingEngine.generateSignal called on its own

StrategyOfStyle(style) == CHOOSE st \in Strategies : st.style = style

RuleCandle(close) == [close |-> N(close), low |-> N(close - 2), high |-> N(close + 2)]

\* TREND bags: the averages of a series of positive prices are positive; adx
\* below, at and above the threshold, 0 being the value calculateADX falls
\* back to; the histogram of either sign and 0, the fallback of calculateMACD
TrendRuleInputs ==
    {[candle |-> RuleCandle(100),
      indicators |-> [ema20 |-> N(e), sma50 |-> N(m), adx |-> N(a),
                      macd |-> [histogram |-> N(h)]],
      strategy |-> StrategyOfStyle("TREND")] :
        e \in {2, 3}, m \in {2, 3}, a \in {0, 25, 30}, h \in {-1, 0, 1}}

\* MEAN_REVERSION bags: rsi over its range 0..100, thresholds and ends
\* included; closes below, at and above 0.99 upper and 1.01 lower
RsiValues == {0, 20, 30, 50, 70, 80, 100}

MeanReversionRuleInputs ==
    {[candle |-> RuleCandle(c),
      indicators |-> [rsi |-> N(r), stochastic |-> DefaultStochastic,
                      bollinger |-> [lower |-> N(100), upper |-> N(100)]],
      strategy |-> StrategyOfStyle("MEAN_REVERSION")] :
        c \in {99, 100, 101}, r \in RsiValues}

\* BREAKOUT bags: the function is handed any candle, also one that closes
\* outside the channel; volumeChange below, at and above the threshold, 0
\* and NaN (volumes that are not numbers)
BreakoutRuleInputs ==
    {[candle |-> RuleCandle(c),
      indicators |-> [atr |-> N(1), volumeChange |-> v,
                      donchian |-> [upper |-> N(100), lower |-> N(100)]],
      strategy |-> StrategyOfStyle("BREAKOUT")] :
        c \in {99, 100, 101}, v \in {N(-30), N(0), N(20), N(30), NaN}}

RuleInit ==
    /\ ruleInput \in TrendRuleInputs \cup MeanReversionRuleInputs \cup BreakoutRuleInputs
    /\ ruleSignal = "none"
    /\ AgentUnused
    /\ data = NoData
    /\ calculated = NoResult
    /\ strategy = [id |-> "none"]
    /\ marketData = [length |-> 0, at |-> <<>>]
    /\ indicatorTable = <<>>
    /\ initialCapital = N(DefaultInitialCapital)
    /\ pc = "unused"
    /\ NotCalled
    /\ other = NoFrame
    /\ ValidatorUnused

\* lines 277-289
GenerateSignal ==
    /\ ruleInput # NoResult
    /\ ruleSignal = "none"
    /\ ruleSignal' = generateSignal(ruleInput.candle, ruleInput.indicators,
                                    ruleInput.strategy)
    /\ UNCHANGED <<ruleInput, data, calculated, agentVars, engineVars, other,
                   validatorVars>>

RuleNext == GenerateSignal

SpecRule == RuleInit /\ [][RuleNext]_vars

-----------------------------------------------------------------------------
\* The live TradingAgent: its open positions and its position history

\* largest number of positions opened, and of history entries, in a modelled run
MaxPositions == 2
MaxClosed == 3
\* largest value of the clock
MaxNow == 1

Symbols == {"BTC/USDT", "ETH/USDT"}

\* default of the accountBalance parameter of the constructor
DefaultAccountBalance == 10000

\* the signals passed in: entry, stopLoss and takeProfit are set, so that
\* executeSignal takes them as they are
AgentSignals ==
    {[signal |-> "LONG", entry |-> N(100), stopLoss |-> N(95), takeProfit |-> N(110)],
     [signal |-> "SHORT", entry |-> N(100), stopLoss |-> N(105), takeProfit |-> N(90)],
     [signal |-> "NEUTRAL", entry |-> N(0), stopLoss |-> N(0), takeProfit |-> N(0)]}

\* the prices of getCurrentPrice and of updatePositions
Prices == {N(90), N(100), N(110)}

AgentStrategy == StrategyOfStyle("TREND")

AgentInit ==
    /\ AgentUnused
    /\ data = NoData
    /\ calculated = NoResult
    /\ RuleUnused
    /\ strategy = [id |-> "none"]
    /\ marketData = [length |-> 0, at |-> <<>>]
    /\ indicatorTable = <<>>
    /\ initialCapital = N(DefaultInitialCapital)
    /\ pc = "unused"
    /\ NotCalled
    /\ other = NoFrame
    /\ ValidatorUnused

notAgent == <<data, calculated, ruleVars, engineVars, other, validatorVars>>

\* Date.now() of a later call
Tick ==
    /\ now < MaxNow
    /\ now' = now + 1
    /\ UNCHANGED <<positions, positionHistory, notAgent>>

\* lines 898-948
ExecuteSignal(symbol, signal, strat) ==
    /\ Len(positions) < MaxPositions
    /\ IF signal.signal = "NEUTRAL"
       THEN UNCHANGED positions
       ELSE LET riskAmount == Mul(N(DefaultAccountBalance), strat.riskPerTrade)
                riskPerUnit == Abs(Sub(signal.entry, signal.stopLoss))
            IN positions' = Append(positions,
                   [id |-> <<symbol, now>>,
                    symbol |-> symbol,
                    side |-> signal.signal,
                    entryPrice |-> signal.entry,
                    quantity |-> Div(riskAmount, riskPerUnit),
                    stopLoss |-> signal.stopLoss,
                    takeProfit |-> signal.takeProfit,
                    timestamp |-> now,
                    status |-> "OPEN",
                    strategy |-> strat.id])
    /\ UNCHANGED <<positionHistory, now, notAgent>>

\* lines 1077-1096: the record closePosition builds, pushes to the history and
\* returns
closedPosition(pos, closePrice, reason) ==
    LET move == IF pos.side = "LONG"
                THEN Sub(closePrice, pos.entryPrice)
                ELSE Sub(pos.entryPrice, closePrice)
    IN [pos EXCEPT !.status = "CLOSED"] @@
       [closedAt |-> now,
        closedPrice |-> closePrice,
        pnl |-> Mul(move, pos.quantity),
        pnlPercentage |-> Mul(Div(move, pos.entryPrice), N(100)),
        closeReason |-> reason]

\* lines 1033-1047: the reason updatePositions closes an open position for at
\* a price, "" when it leaves it open
HitReason(pos, currentPrice) ==
    IF pos.side = "LONG"
    THEN IF Le(currentPrice, pos.stopLoss) THEN "STOP_LOSS"
         ELSE IF Ge(currentPrice, pos.takeProfit) THEN "TAKE_PROFIT"
         ELSE ""
    ELSE IF Ge(currentPrice, pos.stopLoss) THEN "STOP_LOSS"
         ELSE IF Le(currentPrice, pos.takeProfit) THEN "TAKE_PROFIT"
         ELSE ""

\* line 1028 and lines 1033-1047: updatePositions closes the position
Hit(pos, symbol, currentPrice) ==
    /\ pos.symbol = symbol
    /\ pos.status = "OPEN"
    /\ HitReason(pos, currentPrice) # ""

\* lines 1026-1052: this.positions = this.positions.map(...), each position
\* that is hit being replaced by what closePosition returns
UpdatePositions(symbol, currentPrice) ==
    LET closing == SelectSeq(positions, LAMBDA p : Hit(p, symbol, currentPrice))
        closed(p) == closedPosition(p, currentPrice, HitReason(p, currentPrice))
    IN /\ closing # <<>>
       /\ Len(positionHistory) + Len(closing) <= MaxClosed
       /\ positions' = [k \in DOMAIN positions |->
                          IF Hit(positions[k], symbol, currentPrice)
                          THEN closed(positions[k]) ELSE positions[k]]
       /\ positionHistory' =
             positionHistory \o [k \in DOMAIN closing |-> closed(closing[k])]
       /\ UNCHANGED <<now, notAgent>>

\* lines 1129-1131 and 1143-1145
getOpenPositions == SelectSeq(positions, LAMBDA p : p.status = "OPEN")
getOpenPositionsForSymbol(symbol) ==
    SelectSeq(positions, LAMBDA p : p.symbol = symbol /\ p.status = "OPEN")

\* lines 1115-1124: the first open position of that id is closed at the
\* current price; this.positions is not written
ClosePositionManually(positionId, currentPrice) ==
    LET found == SelectSeq(positions,
                           LAMBDA p : p.id = positionId /\ p.status = "OPEN")
    IN /\ found # <<>>
       /\ Len(positionHistory) < MaxClosed
       /\ positionHistory' =
             Append(positionHistory, closedPosition(found[1], currentPrice, "MANUAL"))
       /\ UNCHANGED <<positions, now, notAgent>>

\* lines 1150-1170: each open position of the symbol whose side is opposite
\* to the new signal is passed to closePosition, whose result is dropped
CheckAndUpdatePositionsForSignalChanges(symbol, newSignal, currentPrice) ==
    LET against == SelectSeq(getOpenPositionsForSymbol(symbol),
                      LAMBDA p : \/ p.side = "LONG" /\ newSignal.signal = "SHORT"
                                 \/ p.side = "SHORT" /\ newSignal.signal = "LONG")
    IN /\ against # <<>>
       /\ Len(positionHistory) + Len(against) <= MaxClosed
       /\ positionHistory' = positionHistory \o
             [k \in DOMAIN against |->
                closedPosition(against[k], currentPrice, "SIGNAL_CHANGE")]
       /\ UNCHANGED <<positions, now, notAgent>>

PositionIds == {<<symbol, t>> : symbol \in Symbols, t \in 0 .. MaxNow}

AgentNext ==
    \/ Tick
    \/ \E symbol \in Symbols, signal \in AgentSignals :
          ExecuteSignal(symbol, signal, AgentStrategy)
    \/ \E symbol \in Symbols, price \in Prices : UpdatePositions(symbol, price)
    \/ \E positionId \in PositionIds, price \in Prices :
          ClosePositionManually(positionId, price)
    \/ \E symbol \in Symbols, signal \in AgentSignals, price \in Prices :
          CheckAndUpdatePositionsForSignalChanges(symbol, signal, price)

SpecAgent == AgentInit /\ [][AgentNext]_vars

-----------------------------------------------------------------------------
\* runBacktest with a BREAKOUT strategy

\* number of candles of such a series beyond the first MinCandles
MaxBreakout == 2

\* the candles obey low <= close <= high
BreakoutCandles == {Candle(2, 2, 3), Candle(6, 5, 6)}

\* the extremes of the 19 candles before a candle: all below it, all above it
BreakoutBefores == {[high |-> N(1), low |-> N(1)], [high |-> N(20), low |-> N(20)]}

\* calculateVolumeChange: its fallback 0 and a rise above the threshold
BreakoutVolumeChanges == {N(0), N(30)}

BreakoutCandlesWithIndicators ==
    UNION {{<<c, common @@ bag>> :
               common \in CommonIndicators(c),
               bag \in BreakoutBags(c, BreakoutBefores, BreakoutVolumeChanges)} :
             c \in BreakoutCandles}

BreakoutInit ==
    /\ strategy = StrategyOfStyle("BREAKOUT")
    /\ initialCapital = N(DefaultInitialCapital)
    /\ \E n \in MinCandles + 1 .. MinCandles + MaxBreakout :
         \E series \in [Processed(n) -> BreakoutCandlesWithIndicators] :
           /\ marketData =
                [length |-> n,
                 at |-> [k \in Processed(n) |->
                           [timestamp |-> TimeOf(k), close |-> series[k][1].close,
                            low |-> series[k][1].low, high |-> series[k][1].high]]]
           /\ indicatorTable = [k \in Processed(n) |-> series[k][2]]
    /\ pc = "idle"
    /\ NotCalled
    /\ other = NoFrame
    /\ ValidatorUnused
    /\ ServiceUnused

BreakoutNext ==
    \/ RunBacktestStart
    \/ ProcessCandle
    \/ CloseOpenPosition
    \/ Return

SpecBreakout == BreakoutInit /\ [][BreakoutNext]_vars

-----------------------------------------------------------------------------
\* runBacktest on a series whose closes fall, or rise, by 1% a candle

\* number of candles of such a series beyond the first MinCandles
MaxForced == 2

\* the close of candle MinCandles, a power of 100 so that every close of the
\* series is an integer
ForcedBase == 100 ^ (MaxForced - 1)

Directions == {"falling", "rising"}

\* the close of candle MinCandles + k
ForcedClose(direction, k) ==
    N((ForcedBase \div (100 ^ k)) * (IF direction = "falling" THEN 99 ELSE 101) ^ k)

\* high - low of a candle: none, a quarter of a percent, half a percent and
\* ten percent of the close of candle MinCandles
FlatRange == N(0)
HalfPercent == Norm(ForcedBase, 200)
ForcedRanges == {FlatRange, Norm(ForcedBase, 400), HalfPercent, Norm(ForcedBase, 10)}

Signals == {"LONG", "SHORT", "NEUTRAL"}

\* range and signal of a candle: a candle that gives LONG has any of the
\* ranges, the others have the range of half a percent
ForcedChoices ==
    {c \in ForcedRanges \X Signals : c[2] = "LONG" \/ c[1] = HalfPercent}

ForcedCandle(direction, k, range) ==
    [close |-> ForcedClose(direction, k),
     low |-> Sub(ForcedClose(direction, k), range),
     high |-> ForcedClose(direction, k)]

\* the bag of the window that ends with the candle and gives the signal
ForcedIndicators(candle, k, strat, signal) ==
    CHOOSE bag \in calculateIndicators(MinCandles + k + 1, candle, strat) :
        generateSignal(candle, bag, strat) = signal

\* the scenario is run with a TREND strategy
ForcedStrategies == {st \in Strategies : st.style = "TREND"}

ForcedInit ==
    /\ strategy \in ForcedStrategies
    /\ initialCapital = N(DefaultInitialCapital)
    /\ \E direction \in Directions :
         LET n == MinCandles + MaxForced
         IN \E series \in [Processed(n) -> ForcedChoices] :
              LET candle(k) == ForcedCandle(direction, k - MinCandles, series[k][1])
              IN /\ marketData =
                      [length |-> n,
                       at |-> [k \in Processed(n) |->
                                 [timestamp |-> TimeOf(k), close |-> candle(k).close,
                                  low |-> candle(k).low, high |-> candle(k).high]]]
                 /\ indicatorTable =
                      [k \in Processed(n) |->
                         ForcedIndicators(candle(k), k - MinCandles, strategy, series[k][2])]
    /\ pc = "idle"
    /\ NotCalled
    /\ other = NoFrame
    /\ ValidatorUnused
    /\ ServiceUnused

\* the run up to the end of line 224, where the trade log is complete
ForcedNext ==
    \/ RunBacktestStart
    \/ ProcessCandle
    \/ CloseOpenPosition

SpecForced == ForcedInit /\ [][ForcedNext]_vars

----------------------------------------------------------------------------
(* Properties *)

\* lines 96-103: the signal generated for the candle of index k
SignalAt(k) == generateSignal(marketData.at[k], indicatorTable[k], strategy)

Done == pc = "returned"

\* C1: for every completed run, finalCapital equals initialCapital plus the
\* sum of the pnl of all trades of the returned log.
C1_CapitalConservation ==
    Done => NumEq(result.finalCapital,
                  Add(result.initialCapital, SumSeq(PnlOf(result.trades))))

\* C2: at most one position is open at any time: a position is opened only
\* while the run is flat, the candle that closes a position does not open the
\* next one, and consecutive trades of the log do not overlap in time.
C2_SinglePosition ==
    /\ \A k \in 1 .. Len(trades) - 1 : trades[k].exitTime <= trades[k + 1].entryTime
    /\ pc = "loop" => opened - Len(trades) = (IF position = "null" THEN 0 ELSE 1)
    /\ (pc = "loop" /\ position # "null" /\ trades # <<>>)
          => Last(trades).exitTime < entryTime

C2_TwoTrades ==
    /\ Done
    /\ Len(result.trades) >= 2
    /\ result.trades[1].exitTime <= result.trades[2].entryTime

\* C3: a run that closes no trade returns winRate = 0, profitFactor = 0 and
\* sharpeRatio = 0, none of them NaN.
C3_ZeroTradesZeroMetrics ==
    (Done /\ result.trades = <<>>)
       => /\ NumEq(result.winRate, N(0))
          /\ NumEq(result.profitFactor, N(0))
          /\ NumEq(result.sharpeRatio, N(0))

\* C4: equity starts with initialCapital, gets exactly one entry per processed
\* candle (indices MinCandles .. n - 1), so the returned curve has
\* n - MinCandles + 1 entries, and drawdowns is as long as equity.
C4_EquityLength ==
    /\ pc \in {"loop", "metrics", "returned"}
          => /\ Len(equity) = i - MinCandles + 1
             /\ Len(drawdowns) = Len(equity)
             /\ equity[1] = initialCapital
    /\ Done
          => /\ Len(result.equity) = marketData.length - MinCandles + 1
             /\ Len(result.drawdowns) = Len(result.equity)
             /\ result.equity[1] = result.initialCapital

C4_CurveOverTrades ==
    /\ Done
    /\ marketData.length > MinCandles + 1
    /\ result.trades # <<>>
    /\ Len(result.equity) = marketData.length - MinCandles + 1

\* C5: every drawdown of the result is between 0 and 100, and is 0 wherever
\* the equity equals the maximum of the curve so far.
C5_DrawdownBound ==
    Done => \A k \in 1 .. Len(result.drawdowns) :
              /\ Le(N(0), result.drawdowns[k])
              /\ Le(result.drawdowns[k], N(100))
              /\ (\A j \in 1 .. k : Le(result.equity[j], result.equity[k]))
                    => NumEq(result.drawdowns[k], N(0))

\* C6: with fewer than MinCandles candles runBacktest throws before any candle
\* is processed and returns nothing; with MinCandles or more it never throws.
C6_InsufficientData ==
    /\ marketData.length < MinCandles
          => /\ pc \in {"idle", "thrown"}
             /\ result = NoResult
             /\ equity = <<>> /\ trades = <<>> /\ i = 0
    /\ marketData.length >= MinCandles => pc # "thrown"

C6_Thrown == pc = "thrown" /\ marketData.length = MinCandles - 1

\* the index of the candle whose timestamp is t
IndexOfTime(t) == CHOOSE k \in DOMAIN marketData.at : marketData.at[k].timestamp = t

Opposite(side) == IF side = "long" THEN "SHORT" ELSE "LONG"

\* C7: while a position is open, a processed candle closes it with at most
\* one exit reason, chosen in the order stop-loss, take-profit, opposite
\* signal: 'Stop Loss' whenever the stop test holds, 'Take Profit' whenever
\* the target test holds and the stop test does not, 'Signal Reversal' when
\* only the opposite signal fires, and otherwise the position stays open.
C7_ExitPriority ==
    [][(pc = "loop" /\ i < marketData.length /\ position # "null")
         => LET close == marketData.at[i].close
                stop == IF position = "long" THEN Le(close, stopLoss)
                                             ELSE Ge(close, stopLoss)
                target == IF position = "long" THEN Ge(close, takeProfit)
                                               ELSE Le(close, takeProfit)
                reversal == SignalAt(i) = Opposite(position)
                closedWith(reason) ==
                    /\ Len(trades') = Len(trades) + 1
                    /\ SubSeq(trades', 1, Len(trades)) = trades
                    /\ Last(trades').exitReason = reason
                    /\ position' = "null"
            IN /\ stop => closedWith("Stop Loss")
               /\ (~stop /\ target) => closedWith("Take Profit")
               /\ (~stop /\ ~target /\ reversal) => closedWith("Signal Reversal")
               /\ (~stop /\ ~target /\ ~reversal)
                     => (trades' = trades /\ position' = position)]_vars

C7_TakeProfitOverReversal ==
    \E k \in 1 .. Len(trades) :
        /\ trades[k].exitReason = "Take Profit"
        /\ SignalAt(IndexOfTime(trades[k].exitTime)) = Opposite(trades[k].type)

C10_Deterministic ==
    (Done /\ previous # NoResult) => result = previous

C10_SecondRunWithTrades ==
    /\ Done
    /\ previous # NoResult
    /\ result.trades # <<>>

Range(seq) == {seq[k] : k \in DOMAIN seq}

\* C11: no step of runBacktest changes the candle series or the strategy it
\* was given, and no step of the strategy validator changes the candle
\* series, the engine's strategy list, the candidate list or any strategy
\* object that exists; what the validator puts on its list is a new object,
\* and only such objects carry a backTestResult.
C11_ArgumentsNotModified ==
    [][/\ marketData' = marketData
       /\ strategy' = strategy
       /\ instrumentData' = instrumentData
       /\ predefinedStrategies' = predefinedStrategies
       /\ vpc # "idle" => strategies' = strategies
       /\ \A ref \in DOMAIN heap : ref \in DOMAIN heap' /\ heap'[ref] = heap[ref]
       /\ \A ref \in Range(validatedStrategies') :
             /\ ref \notin Range(predefinedStrategies)
             /\ ref \in Range(validatedStrategies) \/ ref \notin DOMAIN heap
       /\ \A ref \in DOMAIN heap' :
             Has(heap'[ref], "backTestResult") => ref \in Range(validatedStrategies')
      ]_vars

\* a validated copy was returned, and the candidate it was copied from still
\* has no backTestResult
C11_CopyReturned ==
    /\ vpc = "returned"
    /\ \E ref \in Range(analysis) : \E c \in Range(strategies) :
          /\ Has(heap[ref], "backTestResult")
          /\ ~Has(heap[c], "backTestResult")
          /\ heap[ref].id = heap[c].id

\* C12: of two calls started on one engine with different strategies on the
\* same series, and run under any interleaving of their steps, each returns
\* the BacktestResult that the same call returns when it runs alone.
C12_Isolation ==
    \A f \in {Frame, other} \ {NoFrame} :
        (f.pc = "returned" /\ f.previous # NoResult) => f.result = f.previous

\* both calls are in their loops, each with a position of its own open
C12_BothInPosition ==
    /\ other # NoFrame
    /\ pc = "loop" /\ other.pc = "loop"
    /\ position # "null" /\ other.position # "null"
    /\ strategy.id # other.strategy.id
    /\ previous = NoResult /\ other.previous = NoResult

\* the expectancy the validator's backtest computes for a strategy on the
\* series of the call
Expectancy(ref) == backtest(heap[ref], instrumentData).expectancy

Validated == vpc = "returned"

\* C13, as claimed: for every candidate list and candle series, each strategy
\* validate returns has a computed expectancy greater than 0.
C13_PositiveExpectancy ==
    Validated => \A ref \in Range(analysis) : Gt(Expectancy(ref), N(0))

\* C13, amended: on a series of at least MinValidation candles each returned
\* strategy carries the result of its backtest, with an expectancy greater
\* than 0, and every candidate with such an expectancy is returned; on a
\* shorter series every candidate is returned and none carries a result.
C13_PositiveWhenValidated ==
    Validated =>
       IF instrumentData.length >= MinValidation
       THEN /\ \A ref \in Range(analysis) :
                  /\ Has(heap[ref], "backTestResult")
                  /\ heap[ref].backTestResult = backtest(heap[ref], instrumentData)
                  /\ Gt(heap[ref].backTestResult.expectancy, N(0))
            /\ \A c \in Range(strategies) :
                  Gt(Expectancy(c), N(0))
                     => \E ref \in Range(analysis) : heap[ref].id = heap[c].id
       ELSE /\ analysis = strategies
            /\ \A ref \in Range(analysis) : ~Has(heap[ref], "backTestResult")

\* of two candidates one was returned and one, of negative expectancy, was not
C13_LoserRejected ==
    /\ Validated
    /\ analysis # <<>>
    /\ \E c \in Range(strategies) :
          /\ Lt(Expectancy(c), N(0))
          /\ \A ref \in Range(analysis) : heap[ref].id # heap[c].id

\* C14: in the list validate returns, the expectancy of each strategy is
\* greater than or equal to that of the next one, and every returned strategy
\* is one of the candidates (the candidate itself, or its copy with the
\* backtest result added).
C14_RankedByExpectancy ==
    Validated =>
       /\ \A k \in 1 .. Len(analysis) - 1 :
             Ge(Expectancy(analysis[k]), Expectancy(analysis[k + 1]))
       /\ \A ref \in Range(analysis) : \E c \in Range(strategies) :
             \A field \in DOMAIN heap[c] : heap[ref][field] = heap[c][field]
       /\ \A j, k \in DOMAIN analysis : j # k => heap[analysis[j]].id # heap[analysis[k]].id

\* two strategies are returned, the one of greater expectancy first, and it
\* was the later of the two in the candidate list
C14_OrderChanged ==
    /\ Validated
    /\ Len(analysis) = 2
    /\ Gt(Expectancy(analysis[1]), Expectancy(analysis[2]))
    /\ \E j, k \in DOMAIN strategies :
          /\ j < k
          /\ heap[strategies[k]].id = heap[analysis[1]].id
          /\ heap[strategies[j]].id = heap[analysis[2]].id

\* C15: the strategies passed to validation, and so the strategies
\* analyzeInstrument returns, all list the regime detected for the series in
\* their suitableRegimes.
C15_SuitableForRegime ==
    vpc # "idle" =>
       /\ marketRegime = detectMarketRegime(instrumentData)
       /\ \A ref \in Range(strategies) \cup Range(validatedStrategies) \cup
                     (IF Validated THEN Range(analysis) ELSE {}) :
             marketRegime \in heap[ref].suitableRegimes
       /\ \A ref \in Range(predefinedStrategies) :
             marketRegime \in heap[ref].suitableRegimes => ref \in Range(strategies)

\* a strategy was returned after validation while a strategy of the engine,
\* of positive expectancy but not suitable for the regime, was left out
C15_UnsuitableLeftOut ==
    /\ Validated
    /\ instrumentData.length >= MinValidation
    /\ analysis # <<>>
    /\ \E ref \in Range(predefinedStrategies) :
          /\ marketRegime \notin heap[ref].suitableRegimes
          /\ Gt(Expectancy(ref), N(0))

\* C16, as claimed: on a series shorter than MinCandles candles validate
\* raises an error and returns no list.
C16_RaisesOnShortSeries ==
    (instrumentData.length < MinCandles /\ vpc # "idle")
       => vpc = "thrown" /\ analysis = NoResult

\* C16, amended: validate raises no error; on a series shorter than
\* MinValidation candles (so also on one shorter than MinCandles) it returns
\* the candidate list as it was passed, and creates no strategy object.
C16_ReturnsCandidatesOnShortSeries ==
    /\ vpc # "thrown"
    /\ (instrumentData.length < MinValidation /\ vpc # "idle")
          => /\ Validated
             /\ analysis = strategies
             /\ heap = [k \in DOMAIN predefinedStrategies |-> heap[k]]

C16_ShortSeriesReturned ==
    /\ Validated
    /\ instrumentData.length = MinCandles - 1
    /\ analysis # <<>>
    /\ analysis = strategies

\* the keys calculateIndicators adds for a style
StyleKeys(style) ==
    CASE style = "TREND" -> {"sma50", "ema20", "adx", "macd"}
      [] style = "MEAN_REVERSION" -> {"bollinger", "rsi", "stochastic"}
      [] style = "BREAKOUT" -> {"atr", "donchian", "volumeChange"}

\* C17: calculateIndicators returns on every window; on fewer than MinCandles
\* candles the bag has the one key price, the close of the last candle (0 on
\* an empty window); on MinCandles candles or more its keys are price,
\* priceChange, volatility and the keys of the strategy's style, and price is
\* the close of the last candle.
C17_IndicatorKeys ==
    /\ (data # NoData /\ calculated = NoResult)
          => calculateIndicators(data.length, data.last, strategy) # {}
    /\ calculated # NoResult =>
          IF data.length < MinCandles
          THEN /\ DOMAIN calculated = {"price"}
               /\ calculated.price =
                     (IF data.length > 0 THEN data.last.close ELSE N(0))
          ELSE /\ DOMAIN calculated =
                     {"price", "priceChange", "volatility"} \cup StyleKeys(strategy.style)
               /\ calculated.price = data.last.close

\* a window of exactly MinCandles candles got the full set of a style
C17_FullSetAtMinimum ==
    /\ calculated # NoResult
    /\ data.length = MinCandles
    /\ strategy.style = "MEAN_REVERSION"
    /\ Has(calculated, "stochastic")

\* a step that processes candle i of the loop
CandleStep == pc = "loop" /\ i' = i + 1

positionFields == <<position, entryPrice, entryTime, positionSize, stopLoss, takeProfit>>

\* C19: the run goes from Flat to InPosition only in the step of a candle i,
\* MinCandles <= i <= n - 1, and exactly when it is Flat and the signal of the
\* candle is LONG or SHORT.  The position is opened at the candle's close,
\* with atrValue the atr indicator when the bag has a usable one and high - low
\* otherwise, stopLoss = close - 2 atrValue for LONG (plus for SHORT),
\* takeProfit = close + 2 atrValue takeProfitRatio for LONG (minus for SHORT)
\* and positionSize = capital riskPerTrade / |close - stopLoss|.  A NEUTRAL
\* signal while Flat leaves the position, the capital and the trades as they
\* were.
C19_Entry ==
    [][/\ (position = "null" /\ position' # "null")
          => CandleStep /\ MinCandles <= i /\ i <= marketData.length - 1
       /\ (CandleStep /\ position # "null") => position' \in {position, "null"}
       /\ (CandleStep /\ position = "null") =>
            LET candle == marketData.at[i]
                bag == indicatorTable[i]
                signal == generateSignal(candle, bag, strategy)
                atrValue == IF Has(bag, "atr") /\ Truthy(bag.atr)
                            THEN bag.atr
                            ELSE Sub(candle.high, candle.low)
                twoAtr == Mul(atrValue, N(2))
            IN IF signal \in {"LONG", "SHORT"}
               THEN /\ position' = (IF signal = "LONG" THEN "long" ELSE "short")
                    /\ entryPrice' = candle.close
                    /\ entryTime' = candle.timestamp
                    /\ stopLoss' = (IF signal = "LONG"
                                    THEN Sub(candle.close, twoAtr)
                                    ELSE Add(candle.close, twoAtr))
                    /\ takeProfit' =
                          (IF signal = "LONG"
                           THEN Add(candle.close, Mul(twoAtr, strategy.takeProfitRatio))
                           ELSE Sub(candle.close, Mul(twoAtr, strategy.takeProfitRatio)))
                    /\ positionSize' =
                          Div(Mul(capital, strategy.riskPerTrade),
                              Abs(Sub(candle.close, stopLoss')))
                    /\ UNCHANGED <<capital, trades>>
               ELSE UNCHANGED <<positionFields, capital, trades>>
      ]_vars

\* a short position was opened on a candle of range 1: the stop is 2 above
\* the entry price
C19_ShortOpened ==
    /\ pc = "loop"
    /\ position = "short"
    /\ trades = <<>>
    /\ stopLoss = Add(entryPrice, N(2))
    /\ Lt(takeProfit, entryPrice)

\* the trade a step appends, held against the position it closes
ExitRecorded ==
    LET trade == trades'[Len(trades')]
        close == IF pc' = "metrics"
                 THEN marketData.at[marketData.length - 1].close
                 ELSE marketData.at[i].close
    IN /\ trades' = Append(trades, trade)
       /\ position # "null"
       /\ trade.type = position
       /\ trade.entryPrice = entryPrice
       /\ trade.exitReason \in {"Stop Loss", "Take Profit", "Signal Reversal", "End of Test"}
       /\ trade.exitReason = "End of Test" <=> pc' = "metrics"
       /\ trade.exitPrice = (CASE trade.exitReason = "Stop Loss" -> stopLoss
                               [] trade.exitReason = "Take Profit" -> takeProfit
                               [] OTHER -> close)
       /\ trade.pnl = (IF position = "long"
                       THEN Mul(Sub(trade.exitPrice, entryPrice), positionSize)
                       ELSE Mul(Sub(entryPrice, trade.exitPrice), positionSize))
       /\ capital' = Add(capital, trade.pnl)

Flat ==
    /\ position = "null"
    /\ entryPrice = N(0)
    /\ entryTime = 0
    /\ positionSize = N(0)
    /\ stopLoss = N(0)
    /\ takeProfit = N(0)

\* C20, as claimed: every exit records a trade with the exit price of its
\* reason and the pnl of that price, adds the pnl to the capital, appends the
\* trade and resets all position fields.
C20_ExitResets ==
    [][Len(trades') = Len(trades) + 1 => ExitRecorded /\ Flat']_vars

\* C20, amended: every exit records the trade, adds its pnl to the capital and
\* appends it; the position fields are reset by the exits inside the loop
\* ('Stop Loss', 'Take Profit', 'Signal Reversal') and are left as they were
\* by 'End of Test'.
C20_ExitRecordedAndResetInLoop ==
    [][Len(trades') = Len(trades) + 1 =>
          /\ ExitRecorded
          /\ IF trades'[Len(trades')].exitReason = "End of Test"
             THEN UNCHANGED positionFields
             ELSE Flat'
      ]_vars

\* a stop loss whose exit price is not the close of its candle was recorded,
\* and the run is Flat afterwards
C20_StopRecorded ==
    /\ pc = "loop"
    /\ Flat
    /\ trades # <<>>
    /\ Last(trades).exitReason = "Stop Loss"
    /\ Last(trades).exitPrice # marketData.at[i - 1].close

\* every processed candle closes 1% below, or 1% above, the one before it
Falling ==
    /\ marketData.length > MinCandles
    /\ \A k \in Processed(marketData.length) \ {MinCandles} :
          Mul(marketData.at[k].close, N(100)) = Mul(marketData.at[k - 1].close, N(99))

Rising ==
    /\ marketData.length > MinCandles
    /\ \A k \in Processed(marketData.length) \ {MinCandles} :
          Mul(marketData.at[k].close, N(100)) = Mul(marketData.at[k - 1].close, N(101))

IsLong(trade) == trade.type = "long"

\* the distance 2 atrValue of a position opened on candle e
StopDistance(e) ==
    Mul(IF Has(indicatorTable[e], "atr") /\ Truthy(indicatorTable[e].atr)
        THEN indicatorTable[e].atr
        ELSE Sub(marketData.at[e].high, marketData.at[e].low), N(2))

\* candle j closes at or beyond the price that forces the exit of the long
\* position opened on candle e: the stop on a falling series, the target on a
\* rising one
Reached(e, j) ==
    IF Falling
    THEN Le(marketData.at[j].close, Sub(marketData.at[e].close, StopDistance(e)))
    ELSE Ge(marketData.at[j].close,
            Add(marketData.at[e].close, Mul(StopDistance(e), strategy.takeProfitRatio)))

ShortSignal(j) ==
    generateSignal(marketData.at[j], indicatorTable[j], strategy) = "SHORT"

\* the first candle after e that reaches the price or gives a SHORT signal
FirstExit(e) ==
    {j \in e + 1 .. marketData.length - 1 :
        /\ Reached(e, j) \/ ShortSignal(j)
        /\ \A m \in e + 1 .. j - 1 : ~Reached(e, m) /\ ~ShortSignal(m)}

\* no position up to trade k was opened with a stop distance of 0
SizesFinite(k) ==
    \A m \in 1 .. k : ~IsZero(StopDistance(trades[m].entryTime))

RuleApplied(style) ==
    /\ ruleSignal # "none"
    /\ ruleInput.strategy.style = style

\* C21: for a MEAN_REVERSION strategy the signal is LONG exactly when
\* rsi < 30 and close < 1.01 bollinger.lower, SHORT exactly when rsi > 70 and
\* close > 0.99 bollinger.upper, and NEUTRAL otherwise, for every rsi of
\* 0..100, rsi = 0 included.
C21_MeanReversionRule ==
    RuleApplied("MEAN_REVERSION") =>
       LET close == ruleInput.candle.close
           bag == ruleInput.indicators
           long == /\ Lt(bag.rsi, N(30))
                   /\ Lt(close, Mul(bag.bollinger.lower, Norm(101, 100)))
           short == /\ Gt(bag.rsi, N(70))
                    /\ Gt(close, Mul(bag.bollinger.upper, Norm(99, 100)))
       IN /\ ruleSignal = "LONG" <=> long
          /\ ruleSignal = "SHORT" <=> short
          /\ ruleSignal = "NEUTRAL" <=> ~long /\ ~short

\* C22: for a TREND strategy the signal is LONG exactly when ema20 > sma50,
\* macd.histogram > 0 and adx > 25, SHORT exactly when ema20 < sma50,
\* macd.histogram < 0 and adx > 25, and NEUTRAL otherwise; with adx <= 25 it
\* is NEUTRAL.
C22_TrendRule ==
    RuleApplied("TREND") =>
       LET bag == ruleInput.indicators
           long == /\ Gt(bag.ema20, bag.sma50)
                   /\ Gt(bag.macd.histogram, N(0))
                   /\ Gt(bag.adx, N(25))
           short == /\ Lt(bag.ema20, bag.sma50)
                    /\ Lt(bag.macd.histogram, N(0))
                    /\ Gt(bag.adx, N(25))
       IN /\ ruleSignal = "LONG" <=> long
          /\ ruleSignal = "SHORT" <=> short
          /\ ruleSignal = "NEUTRAL" <=> ~long /\ ~short
          /\ Le(bag.adx, N(25)) => ruleSignal = "NEUTRAL"

\* the averages and the histogram ask for LONG, adx is exactly 25, and the
\* signal is NEUTRAL
C22_NeutralAtThreshold ==
    /\ RuleApplied("TREND")
    /\ Gt(ruleInput.indicators.ema20, ruleInput.indicators.sma50)
    /\ Gt(ruleInput.indicators.macd.histogram, N(0))
    /\ ruleInput.indicators.adx = N(25)
    /\ ruleSignal = "NEUTRAL"

\* C23: for a BREAKOUT strategy the signal is LONG exactly when
\* close > donchian.upper and volumeChange > 20, SHORT exactly when
\* close < donchian.lower and volumeChange > 20, and NEUTRAL otherwise; it is
\* a function of the candle, the bag and the style.
C23_BreakoutRule ==
    RuleApplied("BREAKOUT") =>
       LET close == ruleInput.candle.close
           bag == ruleInput.indicators
           long == /\ Gt(close, bag.donchian.upper)
                   /\ Gt(bag.volumeChange, N(20))
           short == /\ Lt(close, bag.donchian.lower)
                    /\ Gt(bag.volumeChange, N(20))
       IN /\ ruleSignal = "LONG" <=> long
          /\ ruleSignal = "SHORT" <=> short
          /\ ruleSignal = "NEUTRAL" <=> ~long /\ ~short

\* a close below the channel, on a volume change above 20, gave SHORT
C23_ShortBelowChannel ==
    /\ RuleApplied("BREAKOUT")
    /\ Lt(ruleInput.candle.close, ruleInput.indicators.donchian.lower)
    /\ ruleSignal = "SHORT"

\* the pnl of the winners and of the losers of a trade log
WinnerPnl(ts) == SelectSeq(PnlOf(ts), LAMBDA x : Gt(x, N(0)))
LoserPnl(ts) == SelectSeq(PnlOf(ts), LAMBDA x : Le(x, N(0)))

\* the mean of a list of numbers, 0 for the empty list
MeanOrZero(seq) == IF seq = <<>> THEN N(0) ELSE Div(SumSeq(seq), N(Len(seq)))

\* C24: the metrics of a result are a reduction over its trade log: winners
\* have pnl > 0 and losers pnl <= 0, winRate = |winners| / |trades|,
\* averageWin and averageLoss are the mean pnl of each set (0 for an empty
\* set), profitFactor = |averageWin / averageLoss| and 0 when averageLoss is
\* 0, and totalPnLPercentage = totalPnL / initialCapital * 100.
C24_MetricsReduction ==
    Done =>
       LET ts == result.trades
           averageWin == MeanOrZero(WinnerPnl(ts))
           averageLoss == MeanOrZero(LoserPnl(ts))
       IN /\ ts = trades
          /\ \A k \in DOMAIN ts :
                ~IsNaN(ts[k].pnl) => (Gt(ts[k].pnl, N(0)) <=> ~Le(ts[k].pnl, N(0)))
          /\ result.winRate = Div(N(Len(WinnerPnl(ts))), N(Len(ts)))
          /\ result.averageWin = averageWin
          /\ result.averageLoss = averageLoss
          /\ result.profitFactor =
                (IF averageLoss = N(0) THEN N(0) ELSE Abs(Div(averageWin, averageLoss)))
          /\ result.totalPnL = SumSeq(PnlOf(ts))
          /\ result.totalPnLPercentage =
                Mul(Div(result.totalPnL, result.initialCapital), N(100))

\* a log of one winner and one break-even trade: the break-even trade is the
\* loser, winRate is 1/2 and profitFactor is 0
C24_BreakEvenIsLoss ==
    /\ Done
    /\ Len(result.trades) = 2
    /\ Gt(result.trades[1].pnl, N(0))
    /\ result.trades[2].pnl = N(0)
    /\ result.winRate = Norm(1, 2)
    /\ result.averageLoss = N(0)
    /\ result.profitFactor = N(0)

\* C25: on candles with low <= close <= high, runBacktest with a BREAKOUT
\* strategy never opens a position: the channel includes the current candle,
\* every signal is NEUTRAL, the trade log stays empty and the equity curve
\* flat.
C25_BreakoutNeverOpens ==
    (strategy.style = "BREAKOUT" /\ pc \in {"loop", "metrics", "returned"}) =>
       /\ \A k \in Processed(marketData.length) :
             /\ Le(marketData.at[k].low, marketData.at[k].close)
             /\ Le(marketData.at[k].close, marketData.at[k].high)
             /\ ~Gt(marketData.at[k].close, indicatorTable[k].donchian.upper)
             /\ ~Lt(marketData.at[k].close, indicatorTable[k].donchian.lower)
             /\ generateSignal(marketData.at[k], indicatorTable[k], strategy) = "NEUTRAL"
       /\ position = "null"
       /\ opened = 0
       /\ trades = <<>>
       /\ \A k \in DOMAIN equity : equity[k] = initialCapital
       /\ Done => /\ result.trades = <<>>
                  /\ \A k \in DOMAIN result.equity : result.equity[k] = initialCapital

\* a run returned after a candle that closed at the upper bound of its
\* channel, on a volume change above 20
C25_CloseAtUpperBound ==
    /\ Done
    /\ strategy.style = "BREAKOUT"
    /\ result.trades = <<>>
    /\ \E k \in Processed(marketData.length) :
          /\ marketData.at[k].close = indicatorTable[k].donchian.upper
          /\ Gt(indicatorTable[k].volumeChange, N(20))

\* every trade of the log has a finite pnl
PnlFinite(ts) == \A k \in DOMAIN ts : IsFinite(ts[k].pnl)

\* C26: the last entry of the equity curve equals finalCapital, the forced
\* close at the end of the series included: once the loop and the forced
\* close are done, the capital that the result reports as finalCapital is the
\* last entry of the curve that it reports as equity (stated here for the
\* runs whose trades all have a finite pnl).
C26_EquityEndsAtFinalCapital ==
    (pc \in {"metrics", "returned"} /\ equity # <<>> /\ PnlFinite(trades)) =>
       /\ Last(equity) = capital
       /\ Done => Last(result.equity) = result.finalCapital

\* C27: whenever a position is open, the stop distance |close - stopLoss| of
\* its entry is > 0 and its positionSize is finite and > 0, on every candle
\* (a flat one, high = low, included) and for every style; and no trade of
\* the log has a pnl or a pnlPercentage that is NaN or infinite.
C27_PositiveStopDistance ==
    /\ (pc = "loop" /\ position # "null") =>
          /\ Gt(Abs(Sub(entryPrice, stopLoss)), N(0))
          /\ IsFinite(positionSize)
          /\ Gt(positionSize, N(0))
    /\ \A k \in DOMAIN trades :
          IsFinite(trades[k].pnl) /\ IsFinite(trades[k].pnlPercentage)

\* a step that closes the open position and appends its trade
ExitStep == position # "null" /\ Len(trades') = Len(trades) + 1

\* the position was opened with a positive stop distance by a strategy that
\* risks a positive share, at most all, of the capital
RiskBounded ==
    /\ Gt(Abs(Sub(entryPrice, stopLoss)), N(0))
    /\ Gt(strategy.riskPerTrade, N(0))
    /\ Le(strategy.riskPerTrade, N(1))

\* the amount at risk: capital * riskPerTrade measured at entry (the capital
\* changes only where a position is closed, so it is still the capital of the
\* entry when the exit happens)
RiskAmount == Mul(capital, strategy.riskPerTrade)

ExitTrade == trades'[Len(trades')]

\* C28 as stated: under RiskBounded a 'Stop Loss' trade loses exactly
\* RiskAmount, a 'Take Profit' trade gains exactly RiskAmount *
\* takeProfitRatio, a 'Signal Reversal' or 'End of Test' trade falls strictly
\* between the two, and the capital never becomes negative (stated here for
\* the entries made with a finite capital).
C28_RiskPerTrade ==
    [][(ExitStep /\ RiskBounded /\ IsFinite(capital)) =>
          /\ ExitTrade.exitReason = "Stop Loss" => ExitTrade.pnl = Neg(RiskAmount)
          /\ ExitTrade.exitReason = "Take Profit" =>
                ExitTrade.pnl = Mul(RiskAmount, strategy.takeProfitRatio)
          /\ ExitTrade.exitReason \in {"Signal Reversal", "End of Test"} =>
                /\ Gt(ExitTrade.pnl, Neg(RiskAmount))
                /\ Lt(ExitTrade.pnl, Mul(RiskAmount, strategy.takeProfitRatio))
          /\ ~Lt(capital', N(0))]_vars

\* C28, amended: as stated when the capital at entry is > 0; a position
\* entered with capital 0 has size 0 and every exit of it has pnl 0; a
\* position entered with a capital that is NaN has a pnl that is NaN.
C28_RiskPerTradeOfPositiveCapital ==
    [][(ExitStep /\ RiskBounded) =>
          /\ IsNaN(capital) \/ Ge(capital, N(0))
          /\ IsNaN(capital) => IsNaN(ExitTrade.pnl)
          /\ capital = N(0) => ExitTrade.pnl = N(0)
          /\ Gt(capital, N(0)) =>
                /\ ExitTrade.exitReason = "Stop Loss" => ExitTrade.pnl = Neg(RiskAmount)
                /\ ExitTrade.exitReason = "Take Profit" =>
                      ExitTrade.pnl = Mul(RiskAmount, strategy.takeProfitRatio)
                /\ ExitTrade.exitReason \in {"Signal Reversal", "End of Test"} =>
                      /\ Gt(ExitTrade.pnl, Neg(RiskAmount))
                      /\ Lt(ExitTrade.pnl, Mul(RiskAmount, strategy.takeProfitRatio))
          /\ ~Lt(capital', N(0))]_vars

\* a strategy that risks all of the capital was stopped out, which left
\* capital 0, and the position it entered next was closed with pnl 0
C28_AllLostThenEven ==
    /\ strategy.riskPerTrade = N(1)
    /\ Len(trades) = 2
    /\ trades[1].exitReason = "Stop Loss"
    /\ trades[1].pnl = Neg(initialCapital)
    /\ trades[2].exitReason = "End of Test"
    /\ trades[2].pnl = N(0)
    /\ capital = N(0)

\* C29: the validator returns the candidate list unchanged and unscored on a
\* series of fewer than MinValidation candles; on a series of at least
\* MinValidation candles whose testing split (the candles from
\* floor(0.7 * length) on) has fewer than FirstScored + 2 candles the scoring
\* loop runs zero times, every candidate gets winRate 0 and expectancy 0, and
\* the returned list is empty.
C29_ShortTestSplit ==
    LET n == instrumentData.length
        split == n - (7 * n) \div 10
    IN Validated =>
          /\ n < MinValidation =>
                /\ analysis = strategies
                /\ \A ref \in Range(analysis) : ~Has(heap[ref], "backTestResult")
          /\ (n >= MinValidation /\ split < FirstScored + 2) =>
                /\ {k \in FirstScored .. split - 2 : TRUE} = {}
                /\ Scored(n) = 0
                /\ \A c \in Range(strategies) :
                      /\ backtest(heap[c], instrumentData).winRate = N(0)
                      /\ backtest(heap[c], instrumentData).expectancy = N(0)
                      /\ backtest(heap[c], instrumentData).trades = 0
                /\ analysis = <<>>
                /\ \A k \in DOMAIN heap : ~Has(heap[k], "backTestResult")

\* a series of more than MinValidation candles with FirstScored + 1 testing
\* candles: there were candidates, and none was returned
C29_NoneReturned ==
    /\ Validated
    /\ instrumentData.length > MinValidation
    /\ TestingLength(instrumentData.length) = FirstScored + 1
    /\ strategies # <<>>
    /\ analysis = <<>>

\* number of entries of a list of positions that carry an id
CountOf(seq, positionId) == Cardinality({k \in DOMAIN seq : seq[k].id = positionId})

\* C30: after any sequence of executeSignal, updatePositions,
\* closePositionManually and checkAndUpdatePositionsForSignalChanges calls, a
\* position that has been closed is not among the open positions, cannot be
\* closed again and is exactly once in the position history: the history has
\* as many entries of an id as this.positions has closed positions of that id,
\* and no entry for a position that getOpenPositions returns.
C30_ClosedOnce ==
    \A positionId \in PositionIds :
       /\ CountOf(positionHistory, positionId) =
             CountOf(SelectSeq(positions, LAMBDA p : p.status = "CLOSED"), positionId)
       /\ CountOf(positionHistory, positionId) + CountOf(getOpenPositions, positionId)
             = CountOf(positions, positionId)

=============================================================================
